---- MODULE Spec2Model ----
(***************************************************************************)
(* Process Dispatcher Core (epu/processdispatcher/core.py): the process,   *)
(* resource and node tables, the queue, and the four message handlers      *)
(* dispatch_process, terminate_process, dt_state and ee_heartbeart.  Each  *)
(* handler is one step; the core is single-threaded.  The helpers take and *)
(* return the tables as one record c, and a helper that calls              *)
(* _matchmake_process returns the set of its possible outcomes, since the  *)
(* choice among resources of equal slot_count follows the iteration order  *)
(* of a dict.                                                              *)
(***************************************************************************)
EXTENDS Integers, Sequences, FiniteSets, TLC

None == "None"
\* None where a mapping (constraints, properties) is expected
NoneMap == [None |-> TRUE]
\* the spec argument of a call that carries none
NoSpec == [run_type |-> None, parameters |-> None]

(* ------------------------------ bounds -------------------------------- *)

\* rounds are capped: a handler that would push a round above MaxRound is not taken
MaxRound == 1
\* the number of handler calls the core receives
MaxOps == 6

Upids == {"p1", "p2"}
NodeIds == {"n1", "n2"}
EeIds == {"e1", "e2"}
Specs == {[run_type |-> "supervised", parameters |-> "args"]}
BeatStates == {"RUNNING", "TERMINATED", "FAILED"}
DtStates == {"RUNNING", "TERMINATING", "TERMINATED", "FAILED"}

(* ------------------------- epu.states, util --------------------------- *)

\* ProcessState: compared with <, <=, >= in core.py
ProcessStateRank(s) ==
    CASE s = "REQUESTED"      -> 100
      [] s = "WAITING"        -> 200
      [] s = "PENDING"        -> 300
      [] s = "RUNNING"        -> 400
      [] s = "DIED_REQUESTED" -> 450
      [] s = "TERMINATING"    -> 500
      [] s = "TERMINATED"     -> 600
      [] s = "FAILED"         -> 700
      [] s = "REJECTED"       -> 800

\* node_id_from_eeagent_name: the node an EE agent name belongs to
node_id_from_eeagent_name(sender) ==
    CASE sender = "e1" -> "n1"
      [] sender = "e2" -> "n2"

\* ee_registry: deployable type -> engine spec (slots per EE, engine id)
DeployableTypes == {"dtA", "dtB"}
\* the deployable type EPUM reports a node under
DtOfNode(node_id) == IF node_id = "n1" THEN "dtA" ELSE "dtB"
get_engine_by_dt(dt) ==
    CASE dt = "dtA" -> [slots |-> 1, engine_id |-> "engA"]
      [] dt = "dtB" -> [slots |-> 2, engine_id |-> "engB"]

(* -------------------------- match_constraints ------------------------- *)

\* a constraint value: null, a scalar, or a list of scalars
NullV == [kind |-> "null"]
Scalar(x) == [kind |-> "scalar", v |-> x]
List(xs) == [kind |-> "list", vs |-> xs]

InSeq(x, xs) == \E i \in 1..Len(xs) : xs[i] = x

\* dict.get(key) of a properties mapping: None when the key is missing
PropGet(properties, key) ==
    IF key \in DOMAIN properties THEN properties[key] ELSE None

match_constraints_NoWildcard(constraints, properties) ==
    IF constraints = NoneMap THEN TRUE
    ELSE \A key \in DOMAIN constraints :
           LET value == constraints[key] IN
             /\ properties # NoneMap
             /\ PropGet(properties, key) # None
             /\ \/ value.kind = "null"
                \/ IF value.kind = "list"
                   THEN InSeq(PropGet(properties, key), value.vs)
                   ELSE PropGet(properties, key) = value.v

match_constraints(constraints, properties) ==
    IF constraints = NoneMap THEN TRUE
    ELSE \A key \in DOMAIN constraints :
           LET value == constraints[key] IN
             \/ value.kind = "null"
             \/ /\ properties # NoneMap
                /\ PropGet(properties, key) # None
                /\ IF value.kind = "list"
                   THEN InSeq(PropGet(properties, key), value.vs)
                   ELSE PropGet(properties, key) = value.v

ConstraintChoices == {NoneMap, [engine_type |-> Scalar("engB")]}
NodeProperties == {NoneMap}

(* ------------------------------- state -------------------------------- *)

VARIABLES
    processes,   \* upid -> ProcessRecord
    resources,   \* ee_id -> ExecutionEngineResource
    nodes,       \* node_id -> DeployedNode
    queue,       \* sequence of upids (the queued ProcessRecords)
    out,         \* calls made on eeagent_client and notifier by the last handler
    op,          \* the last handler and its arguments
    nops,        \* the number of handler calls so far, counted up to MaxOps
    removed      \* the nodes dt_state was told are TERMINATING or TERMINATED

\* the Needy decision engine of one domain (epu/decisionengine/impls/needy.py)
VARIABLES
    engine,      \* the NeedyEngine object: its settings, counters and engine state
    instances,   \* instance_id -> instance of the domain (ids are 1, 2, ... in launch order)
    calls,       \* calls made on the Control by the last engine operation
    eop          \* the last engine operation, its argument and how it ended

\* the EPUM reactor and the store it writes to (epu/epumanagement/reactor.py)
VARIABLES
    store,       \* the domain of the store: its health setting and its instances
    rcalls,      \* calls made on the domain and the subscribers by the last handler
    rop          \* the last reactor handler, the message it got and how it ended

\* one application of match_constraints
VARIABLES
    mc           \* the constraints, the properties and the value returned

pdc_vars == <<processes, resources, nodes, queue, out, op, nops, removed>>
engine_vars == <<engine, instances, calls, eop>>
reactor_vars == <<store, rcalls, rop>>
match_vars == <<mc>>
vars == <<processes, resources, nodes, queue, out, op, nops, removed,
          engine, instances, calls, eop, store, rcalls, rop, mc>>

\* the core's tables as one value, threaded through the helpers
\* (stale, staleEffect: the upids ee_heartbeart skipped as stale, and whether
\* such an entry changed the record or made a call; died: the entries that
\* reported the death of a process, with the state the process was in;
\* considered: the queue, the free slots and the calls made so far when
\* _consider_resource was entered; slots: for each assignment, the resource as
\* it was just before)
Core == [processes |-> processes, resources |-> resources, nodes |-> nodes,
         queue |-> queue, out |-> <<>>, stale |-> {}, staleEffect |-> FALSE,
         died |-> {}, considered |-> NoneMap, slots |-> <<>>]

Msg(kind, ee, upid, round, state, spec) ==
    [kind |-> kind, ee |-> ee, upid |-> upid, round |-> round, state |-> state,
     spec |-> spec]

Emit(c, m) == [c EXCEPT !.out = Append(@, m)]

\* notifier.notify_process(process): the record as it is now
Notify(c, upid) ==
    LET p == c.processes[upid] IN
    Emit(c, Msg("notify", p.assigned, upid, p.round, p.state, NoSpec))

ProcessRecord(spec, state, constraints, immediate) ==
    [spec |-> spec, state |-> state, constraints |-> constraints, round |-> 0,
     immediate |-> immediate, assigned |-> None]

ExecutionEngineResource(node_id, slots, properties) ==
    [node_id |-> node_id, properties |-> properties, slot_count |-> slots,
     processes |-> <<>>, pending |-> {}, enabled |-> TRUE]

DeployedNode(dt, properties) ==
    [dt |-> dt, properties |-> properties, resources |-> <<>>]

Max(a, b) == IF a > b THEN a ELSE b

available_slots(r) ==
    IF ~r.enabled THEN 0
    ELSE Max(0, r.slot_count - Len(r.processes) - Cardinality(r.pending))

(* ----------------------------- matchmaking ---------------------------- *)

\* (the two assertions of add_pending_process hold here: slot_count is at least
\* one for every engine spec, and assigned was set to this ee_id just before)
_dispatch_matched_process(c, upid, ee) ==
    LET r == c.resources[ee]
        c1 == [c EXCEPT !.processes[upid].assigned = ee,
                        !.processes[upid].state = "PENDING",
                        !.resources[ee].pending = @ \cup {upid},
                        !.slots = Append(@, [ee |-> ee, enabled |-> r.enabled,
                                             available |-> available_slots(r),
                                             used |-> Len(r.processes)
                                                      + Cardinality(r.pending),
                                             slot_count |-> r.slot_count])]
        p == c1.processes[upid]
    IN Emit(c1, Msg("launch", ee, upid, p.round, None, p.spec))

Matching_AnySlots(c, upid) ==
    {ee \in DOMAIN c.resources :
        match_constraints(c.processes[upid].constraints, c.resources[ee].properties)}

Matching(c, upid) ==
    {ee \in DOMAIN c.resources :
        /\ available_slots(c.resources[ee]) > 0
        /\ match_constraints(c.processes[upid].constraints,
                             c.resources[ee].properties)}

\* min keyed by the free slots instead of slot_count
MinSlotCount_ByAvailable(c, matching) ==
    {ee \in matching :
        \A f \in matching :
            available_slots(c.resources[ee]) <= available_slots(c.resources[f])}

\* min(matching, key=slot_count): the first minimal resource in the table's
\* iteration order, which is any of the minimal ones
MinSlotCount(c, matching) ==
    {ee \in matching :
        \A f \in matching : c.resources[ee].slot_count <= c.resources[f].slot_count}

\* _matchmake_process that queues a process whatever its immediate flag
_matchmake_process_QueueAll(c, upid) ==
    LET matching == Matching(c, upid) IN
    IF matching = {}
    THEN {[c EXCEPT !.processes[upid].state = "WAITING", !.queue = Append(@, upid)]}
    ELSE {_dispatch_matched_process(c, upid, ee) : ee \in MinSlotCount(c, matching)}

\* the set of outcomes of _matchmake_process
_matchmake_process(c, upid) ==
    LET matching == Matching(c, upid) IN
    IF matching = {}
    THEN IF c.processes[upid].immediate
         THEN {[c EXCEPT !.processes[upid].state = "REJECTED"]}
         ELSE {[c EXCEPT !.processes[upid].state = "WAITING",
                         !.queue = Append(@, upid)]}
    ELSE {_dispatch_matched_process(c, upid, ee) : ee \in MinSlotCount(c, matching)}

(* ------------------------------ handlers ------------------------------ *)

\* NeedyEngine.__init__ (unique_values None is the empty sequence: a set
\* unique_values is never empty)
NeedyEngine ==
    [preserve_n |-> 0, iaas_site |-> None, iaas_allocation |-> None,
     deployable_type |-> None, retirable_nodes |-> <<>>,
     unique_key |-> None, unique_values |-> <<>>,
     initialize_count |-> 0, initialize_conf |-> NoneMap,
     decide_count |-> 0, reconfigure_count |-> 0, state |-> None]

EngineOp(name, conf, result) == [name |-> name, conf |-> conf, result |-> result, n |-> 0]

\* a domain whose engine was constructed and has no instance yet
EngineInit ==
    /\ engine = NeedyEngine
    /\ instances = <<>>
    /\ calls = <<>>
    /\ eop = EngineOp("init", NoneMap, "ok")

\* a store with one domain, health monitoring off, and no instance yet
ReactorInit ==
    /\ store = [health_enabled |-> FALSE, ids |-> {}, instances |-> <<>>]
    /\ rcalls = <<>>
    /\ rop = [name |-> "init", content |-> NoneMap, timestamp |-> 0,
              raised |-> FALSE, notify_failed |-> FALSE, n |-> 0]

\* match_constraints not applied
MatchInit ==
    mc = [constraints |-> NoneMap, properties |-> NoneMap, applied |-> FALSE,
          result |-> FALSE]

Commit(c, o) ==
    /\ UNCHANGED <<engine_vars, reactor_vars, match_vars>>
    /\ nops' = IF nops < MaxOps THEN nops + 1 ELSE nops
    /\ removed' = IF o.name = "dt_state" /\ o.arg \in {"removed", "unknown"}
                  THEN removed \cup {o.node} ELSE removed
    /\ \A u \in DOMAIN c.processes : c.processes[u].round <= MaxRound
    /\ processes' = c.processes
    /\ resources' = c.resources
    /\ nodes' = c.nodes
    /\ queue' = c.queue
    /\ out' = c.out
    /\ op' = [o EXCEPT !.stale = c.stale, !.staleEffect = c.staleEffect,
                       !.died = c.died, !.considered = c.considered,
                       !.slots = c.slots]

\* arg names the branch the handler took; ret is the record it returned
Op(name, upid, node, ee, arg) ==
    [name |-> name, upid |-> upid, node |-> node, ee |-> ee, arg |-> arg,
     ret |-> NoneMap, stale |-> {}, staleEffect |-> FALSE,
     died |-> {}, considered |-> NoneMap, slots |-> <<>>]

Returning(c, o) == [o EXCEPT !.ret = c.processes[o.upid]]

\* dispatch_process without the look-up of the upid
dispatch_process_NoLookup(upid, spec, constraints, immediate) ==
    LET process == ProcessRecord(spec, "REQUESTED", constraints, immediate)
        c1 == [Core EXCEPT !.processes = (upid :> process) @@ @]
        arg == IF upid \in DOMAIN processes THEN "known" ELSE "new"
    IN \E c2 \in _matchmake_process(c1, upid) :
         Commit(c2, Returning(c2, Op("dispatch_process", upid, None, None, arg)))

dispatch_process(upid, spec, constraints, immediate) ==
    IF upid \in DOMAIN processes
    THEN Commit(Core, Returning(Core, Op("dispatch_process", upid, None, None, "known")))
    ELSE LET process == ProcessRecord(spec, "REQUESTED", constraints, immediate)
             c1 == [Core EXCEPT !.processes = (upid :> process) @@ @]
         IN \E c2 \in _matchmake_process(c1, upid) :
              Commit(c2, Returning(c2, Op("dispatch_process", upid, None, None, "new")))

\* terminate_process that marks an assigned process TERMINATED at once
terminate_process_Eager(upid) ==
    IF upid \notin DOMAIN processes
    THEN Commit(Core, Op("terminate_process", upid, None, None, "KeyError"))
    ELSE LET process == processes[upid]
             c1 == IF process.assigned = None THEN Core
                   ELSE Emit(Core, Msg("terminate", process.assigned, upid,
                                       process.round, None, NoSpec))
             c2 == [c1 EXCEPT !.processes[upid].state = "TERMINATED"]
         IN Commit(c2, Returning(c2, Op("terminate_process", upid, None, None, "assigned")))

terminate_process(upid) ==
    IF upid \notin DOMAIN processes
    THEN Commit(Core, Op("terminate_process", upid, None, None, "KeyError"))
    ELSE LET process == processes[upid] IN
         IF ProcessStateRank(process.state) >= ProcessStateRank("TERMINATED")
         THEN Commit(Core, Returning(Core, Op("terminate_process", upid, None, None, "noop")))
         ELSE IF process.assigned = None
         THEN LET c1 == [Core EXCEPT !.processes[upid].state = "TERMINATED"]
              IN Commit(c1, Returning(c1, Op("terminate_process", upid, None, None,
                                             "unassigned")))
         ELSE LET c1 == [Emit(Core, Msg("terminate", process.assigned, upid,
                                        process.round, None, NoSpec))
                           EXCEPT !.processes[upid].state = "TERMINATING"]
              IN Commit(c1, Returning(c1, Op("terminate_process", upid, None, None,
                                             "assigned")))

(* dt_state *)

RECURSIVE Concat(_)
Concat(seqs) == IF seqs = <<>> THEN <<>> ELSE Head(seqs) \o Concat(Tail(seqs))

\* the (resource, upid) pairs the two nested loops of dt_state visit, in order
NodeWork(c, node) ==
    Concat([i \in 1..Len(node.resources) |->
             LET ee == node.resources[i] IN
             [j \in 1..Len(c.resources[ee].processes) |->
                 <<ee, c.resources[ee].processes[j]>>]])

\* the inner loop body of dt_state with the round bumped after the rematch
DtStateProcess_LateBump(c, ee, upid) ==
    IF upid \notin DOMAIN c.processes THEN {c}
    ELSE LET process == c.processes[upid]
             c1 == IF ProcessStateRank(process.state) < ProcessStateRank("TERMINATED")
                   THEN Emit(c, Msg("terminate", ee, upid, process.round, None, NoSpec))
                   ELSE c
         IN IF process.state = "TERMINATING"
            THEN {Notify([c1 EXCEPT !.processes[upid].state = "TERMINATED"], upid)}
            ELSE IF ProcessStateRank(process.state) < ProcessStateRank("TERMINATING")
            THEN LET c2 == [c1 EXCEPT !.processes[upid].assigned = None,
                                      !.processes[upid].state = "DIED_REQUESTED"]
                 IN {Notify([c4 EXCEPT !.processes[upid].round = @ + 1], upid) :
                       c4 \in _matchmake_process(Notify(c2, upid), upid)}
            ELSE {c1}

\* one pass of the inner loop body of dt_state: the set of outcomes
DtStateProcess(c, ee, upid) ==
    IF upid \notin DOMAIN c.processes THEN {c}
    ELSE LET process == c.processes[upid]
             c1 == IF ProcessStateRank(process.state) < ProcessStateRank("TERMINATED")
                   THEN Emit(c, Msg("terminate", ee, upid, process.round, None, NoSpec))
                   ELSE c
         IN IF process.state = "TERMINATING"
            THEN {Notify([c1 EXCEPT !.processes[upid].state = "TERMINATED"], upid)}
            ELSE IF ProcessStateRank(process.state) < ProcessStateRank("TERMINATING")
            THEN LET c2 == [c1 EXCEPT !.processes[upid].round = @ + 1,
                                      !.processes[upid].assigned = None,
                                      !.processes[upid].state = "DIED_REQUESTED"]
                 IN {Notify(c4, upid) : c4 \in _matchmake_process(Notify(c2, upid), upid)}
            ELSE {c1}

RECURSIVE DtStateLoop(_, _)
DtStateLoop(cs, work) ==
    IF work = <<>> THEN cs
    ELSE DtStateLoop(UNION {DtStateProcess(c, Head(work)[1], Head(work)[2]) : c \in cs},
                     Tail(work))

Restrict(f, keys) == [k \in keys |-> f[k]]

dt_state(node_id, deployable_type, state, properties) ==
    IF state = "RUNNING"
    THEN IF node_id \notin DOMAIN nodes
         THEN Commit([Core EXCEPT !.nodes =
                        @ @@ (node_id :> DeployedNode(deployable_type, properties))],
                     Op("dt_state", None, node_id, None, "registered"))
         ELSE Commit(Core, Op("dt_state", None, node_id, None, "known"))
    ELSE IF state \in {"TERMINATING", "TERMINATED"}
    THEN IF node_id \notin DOMAIN nodes
         THEN Commit(Core, Op("dt_state", None, node_id, None, "unknown"))
         ELSE LET node == nodes[node_id]
                  gone == {node.resources[i] : i \in 1..Len(node.resources)}
                  c1 == [Core EXCEPT !.resources =
                           [ee \in DOMAIN @ |->
                              IF ee \in gone THEN [@[ee] EXCEPT !.enabled = FALSE]
                              ELSE @[ee]]]
              IN \E c2 \in DtStateLoop({c1}, NodeWork(c1, node)) :
                   Commit([c2 EXCEPT
                             !.nodes = Restrict(@, DOMAIN @ \ {node_id}),
                             !.resources = Restrict(@, DOMAIN @ \ gone)],
                          Op("dt_state", None, node_id, None, "removed"))
    ELSE Commit(Core, Op("dt_state", None, node_id, None, "ignored"))

(* ee_heartbeart *)

\* an EE reports a process under the round it was last launched with, or under
\* the round before that; a process the core never saw under round 0
BeatRounds(upid) ==
    IF upid \in DOMAIN processes
    THEN {r \in 0..MaxRound : processes[upid].round - 1 <= r /\ r <= processes[upid].round}
    ELSE {0}
BeatEntries ==
    {e \in [upid : Upids, round : 0..MaxRound, state : BeatStates] :
        e.round \in BeatRounds(e.upid)}
\* a beat reports nothing, one process in any state, or two running processes
RunningPairs ==
    {b \in BeatEntries \X BeatEntries : b[1].state = "RUNNING" /\ b[2].state = "RUNNING"}
Beats == {<<>>} \cup {<<e>> : e \in BeatEntries} \cup RunningPairs

\* the resource of the sender, made on its first heartbeat
FirstHeartbeat(c, sender, node_id) ==
    LET node == c.nodes[node_id]
        engine_spec == get_engine_by_dt(node.dt)
        base == IF node.properties = NoneMap THEN <<>> ELSE node.properties
        properties == [k \in DOMAIN base \cup {"engine_type"} |->
                         IF k = "engine_type" THEN engine_spec.engine_id ELSE base[k]]
    IN [c EXCEPT !.resources =
                   @ @@ (sender :> ExecutionEngineResource(node_id, engine_spec.slots,
                                                           properties)),
                 !.nodes[node_id].resources = Append(@, sender)]

DiedRequested_SameRound(c, upid) ==
    [c EXCEPT !.processes[upid].state = "DIED_REQUESTED",
              !.processes[upid].assigned = None]

\* a PENDING or RUNNING process died in its resource: it is to be rescheduled
DiedRequested(c, upid) ==
    [c EXCEPT !.processes[upid].state = "DIED_REQUESTED",
              !.processes[upid].assigned = None,
              !.processes[upid].round = @ + 1]

\* the loop body of ee_heartbeart from the removal from pending on; the reported
\* state is in its joined form, which the join of a list or tuple leaves it in
HeartbeatReconcile(c, sender, procstate) ==
    LET upid == procstate.upid
        round == procstate.round
        state == procstate.state
        c1 == [c EXCEPT !.resources[sender].pending = @ \ {upid}]
        process == c1.processes[upid]
        cleanup(d) == Emit(d, Msg("cleanup", sender, upid, round, None, NoSpec))
    IN IF state = process.state THEN {c1}
       ELSE IF process.state = "PENDING" /\ state = "RUNNING"
       THEN {Notify([c1 EXCEPT !.processes[upid].state = "RUNNING"], upid)}
       ELSE IF state \in {"TERMINATED", "FAILED"}
       THEN IF process.state = "TERMINATING"
            THEN {cleanup(Notify([c1 EXCEPT !.processes[upid].state = "TERMINATED",
                                            !.processes[upid].assigned = None],
                                 upid))}
            ELSE IF process.state \in {"PENDING", "RUNNING"}
            THEN LET c2 == DiedRequested(c1, upid)
                 IN {cleanup(c3) : c3 \in _matchmake_process(Notify(c2, upid), upid)}
            ELSE {cleanup(c1)}
       ELSE {c1}

\* the loop body without the check of the reported round
HeartbeatProcess_NoRoundCheck(c, sender, procstate) ==
    IF procstate.upid \notin DOMAIN c.processes THEN {c}
    ELSE HeartbeatReconcile(c, sender, procstate)

\* one pass of the loop over beat['processes'], after running_upids is extended
HeartbeatProcess(c, sender, procstate) ==
    IF procstate.upid \notin DOMAIN c.processes THEN {c}
    ELSE IF procstate.round < c.processes[procstate.upid].round THEN {c}
    ELSE HeartbeatReconcile(c, sender, procstate)

\* the pass for one entry, noting whether the entry was stale (its round below
\* the round of the record) and whether the pass then touched the record or made
\* a call, and whether the entry reported the death of a process it knows under
\* a round that is not stale
HeartbeatEntry(c, sender, procstate) ==
    LET upid == procstate.upid
        isStale == upid \in DOMAIN c.processes /\ procstate.round < c.processes[upid].round
        isDeath == /\ upid \in DOMAIN c.processes
                   /\ ~isStale
                   /\ procstate.state \in {"TERMINATED", "FAILED"}
    IN {IF isStale
        THEN [d EXCEPT !.stale = @ \cup {upid},
                       !.staleEffect = @ \/ d.processes[upid] # c.processes[upid]
                                         \/ d.out # c.out]
        ELSE IF isDeath
        THEN [d EXCEPT !.died = @ \cup {[upid |-> upid, round |-> procstate.round,
                                         was |-> c.processes[upid].state]}]
        ELSE d
        : d \in HeartbeatProcess(c, sender, procstate)}

RECURSIVE HeartbeatLoop(_, _, _)
HeartbeatLoop(cs, sender, processes_) ==
    IF processes_ = <<>> THEN cs
    ELSE HeartbeatLoop(UNION {HeartbeatEntry(c, sender, Head(processes_)) : c \in cs},
                       sender, Tail(processes_))

\* running_upids: the upids reported in a state <= RUNNING, in beat order
RunningUpids(processes_) ==
    LET keep == SelectSeq(processes_,
                  LAMBDA e : ProcessStateRank(e.state) <= ProcessStateRank("RUNNING"))
    IN [i \in 1..Len(keep) |-> keep[i].upid]

RECURSIVE ConsiderLoop(_, _, _, _)
ConsiderLoop(c, ee, i, matched) ==
    IF i > Len(c.queue) THEN <<c, matched>>
    ELSE LET upid == c.queue[i] IN
         IF ~match_constraints(c.processes[upid].constraints, c.resources[ee].properties)
         THEN ConsiderLoop(c, ee, i + 1, matched)
         ELSE IF available_slots(c.resources[ee]) = 0 THEN <<c, matched>>
         ELSE ConsiderLoop(_dispatch_matched_process(c, upid, ee), ee, i + 1,
                           matched \cup {upid})

\* _consider_resource that leaves the queue as it is
_consider_resource_Idle(c, ee) ==
    [c EXCEPT !.considered =
        [ee |-> ee, available |-> available_slots(c.resources[ee]),
         queue |-> c.queue, calls |-> Len(c.out)]]

_consider_resource(c, ee) ==
    LET c0 == [c EXCEPT !.considered =
                   [ee |-> ee, available |-> available_slots(c.resources[ee]),
                    queue |-> c.queue, calls |-> Len(c.out)]]
        r == ConsiderLoop(c0, ee, 1, {})
        c1 == r[1]
        matched == r[2]
    IN IF matched # {}
       THEN [c1 EXCEPT !.queue = SelectSeq(@, LAMBDA u : u \notin matched)]
       ELSE c1

\* ee_heartbeart that makes the resource of a sender whose node is not known
ee_heartbeart_Unconfirmed(sender, beat) ==
    LET node_id == node_id_from_eeagent_name(sender)
        o == Op("ee_heartbeart", None, node_id, sender, "processed")
        engine_spec == get_engine_by_dt(DtOfNode(node_id))
        c0 == IF sender \in DOMAIN resources THEN Core
              ELSE IF node_id \in DOMAIN nodes THEN FirstHeartbeat(Core, sender, node_id)
              ELSE [Core EXCEPT !.resources =
                      @ @@ (sender :> ExecutionEngineResource(node_id, engine_spec.slots,
                                        [engine_type |-> engine_spec.engine_id]))]
    IN \E c1 \in HeartbeatLoop({c0}, sender, beat) :
         LET c2 == [c1 EXCEPT !.resources[sender].processes = RunningUpids(beat)]
         IN IF c2.queue # <<>> /\ available_slots(c2.resources[sender]) # 0
            THEN Commit(_consider_resource(c2, sender), o)
            ELSE Commit(c2, o)

ee_heartbeart(sender, beat) ==
    LET node_id == node_id_from_eeagent_name(sender)
        o == Op("ee_heartbeart", None, node_id, sender, "processed")
    IN IF sender \notin DOMAIN resources /\ node_id \notin DOMAIN nodes
       THEN Commit(Core, [o EXCEPT !.arg = "unknown node"])
       ELSE LET c0 == IF sender \notin DOMAIN resources
                      THEN FirstHeartbeat(Core, sender, node_id)
                      ELSE Core
            IN \E c1 \in HeartbeatLoop({c0}, sender, beat) :
                 \E c2 \in {[c1 EXCEPT !.resources[sender].processes = RunningUpids(beat)]} :
                    IF c2.queue # <<>> /\ available_slots(c2.resources[sender]) # 0
                    THEN \E c3 \in {_consider_resource(c2, sender)} : Commit(c3, o)
                    ELSE Commit(c2, o)

Init ==
    /\ processes = <<>>
    /\ resources = <<>>
    /\ nodes = <<>>
    /\ queue = <<>>
    /\ out = <<>>
    /\ op = Op("init", None, None, None, None)
    /\ nops = 0
    /\ removed = {}
    /\ EngineInit
    /\ ReactorInit
    /\ MatchInit

\* the calls the core receives from clients, EPUM and the EE agents
DispatchProcess ==
    /\ nops < MaxOps
    /\ \E upid \in Upids, spec \in Specs, constraints \in ConstraintChoices,
          immediate \in BOOLEAN :
         dispatch_process(upid, spec, constraints, immediate)

TerminateProcess ==
    /\ nops < MaxOps
    /\ \E upid \in Upids : terminate_process(upid)

DtState ==
    /\ nops < MaxOps
    /\ \E node_id \in NodeIds, state \in DtStates, properties \in NodeProperties :
         dt_state(node_id, DtOfNode(node_id), state, properties)

EeHeartbeart ==
    /\ nops < MaxOps
    /\ \E sender \in EeIds, beat \in Beats : ee_heartbeart(sender, beat)

Next == DispatchProcess \/ TerminateProcess \/ DtState \/ EeHeartbeart

Spec == Init /\ [][Next]_vars

(* ---------------------- the queue under heartbeats --------------------- *)

\* the core after dispatch_process calls that found no resource and dt_state
\* calls that reported nodes RUNNING: the processes wait in the queue in the
\* order of their calls, and no EE agent has sent a heartbeat yet
QueueOrders(S) ==
    {q \in [1..Cardinality(S) -> S] : \A i, j \in DOMAIN q : q[i] = q[j] => i = j}

QueueInit ==
    /\ processes \in UNION {[S -> {ProcessRecord(spec, "WAITING", constraints, FALSE) :
                                     spec \in Specs, constraints \in ConstraintChoices}] :
                               S \in SUBSET Upids}
    /\ queue \in QueueOrders(DOMAIN processes)
    /\ nodes \in {[n \in N |-> DeployedNode(DtOfNode(n), NoneMap)] : N \in SUBSET NodeIds}
    /\ resources = <<>>
    /\ out = <<>> /\ op = Op("init", None, None, None, None) /\ nops = 0 /\ removed = {}
    /\ EngineInit
    /\ ReactorInit
    /\ MatchInit

\* the beats of an EE agent that reports the processes launched on it, each
\* under the round of its launch, as running or as ended
UpidOrder == <<"p1", "p2">>
LaunchedOn(sender) ==
    SelectSeq(UpidOrder, LAMBDA u : /\ u \in DOMAIN processes
                                    /\ processes[u].assigned = sender
                                    /\ processes[u].state \in {"PENDING", "RUNNING"})
EeAgentBeats(sender) ==
    LET us == LaunchedOn(sender) IN
    {b \in [1..Len(us) -> BeatEntries] :
        \A i \in 1..Len(us) : b[i].upid = us[i] /\ b[i].round = processes[us[i]].round}

Heartbeat(sender) == \E beat \in EeAgentBeats(sender) : ee_heartbeart(sender, beat)

QueueHeartbeat == \E sender \in EeIds : Heartbeat(sender)

\* every EE agent keeps sending heartbeats
QueueSpec ==
    QueueInit /\ [][QueueHeartbeat]_vars /\ \A sender \in EeIds : WF_vars(Heartbeat(sender))

(* ---------------------------- NeedyEngine ----------------------------- *)

\* the number of engine operations and instance reports a domain receives
MaxEngineOps == 4
\* instances of a domain: a decide that would launch beyond this is not taken
MaxInstances == 4

\* a text as the sequence of its characters
Str(cs) == [kind |-> "str", cs |-> cs]

IsNone(m) == DOMAIN m = {None}

\* str.strip(): the text without its leading and trailing blanks
RECURSIVE lstrip(_)
lstrip(cs) == IF cs # <<>> /\ Head(cs) = " " THEN lstrip(Tail(cs)) ELSE cs
RECURSIVE rstrip(_)
rstrip(cs) ==
    IF cs # <<>> /\ cs[Len(cs)] = " " THEN rstrip(SubSeq(cs, 1, Len(cs) - 1)) ELSE cs
strip(cs) == rstrip(lstrip(cs))

\* str.split(','): the pieces between the commas, in order
RECURSIVE split(_)
split(cs) ==
    IF \A i \in 1..Len(cs) : cs[i] # "," THEN <<cs>>
    ELSE LET i == CHOOSE k \in 1..Len(cs) :
                    cs[k] = "," /\ \A j \in 1..(k - 1) : cs[j] # ","
         IN <<SubSeq(cs, 1, i - 1)>> \o split(SubSeq(cs, i + 1, Len(cs)))

\* the text of a sequence of characters
RECURSIVE text(_)
text(cs) == IF cs = <<>> THEN "" ELSE Head(cs) \o text(Tail(cs))

\* the unique values of a conf, as _set_conf reads them: a list as it is, a text
\* stripped and, unless empty, split at the commas with each piece stripped
UniqueValues(values) ==
    IF values.kind = "list" THEN values.vs
    ELSE LET stripped == strip(values.cs) IN
         IF stripped = <<>> THEN <<>>
         ELSE LET pieces == split(stripped)
              IN [i \in 1..Len(pieces) |-> text(strip(pieces[i]))]

\* bool(newconf.get(key)) for the unique_key and unique_values of a conf
ConfTruthy(newconf, key) ==
    /\ key \in DOMAIN newconf
    /\ IF key = "unique_key" THEN newconf[key] \notin {None, ""}
       ELSE IF newconf[key].kind = "list" THEN newconf[key].vs # <<>>
       ELSE newconf[key].cs # <<>>

\* the assignments of _set_conf, for a conf that passed its checks
ApplyConf(e, newconf) ==
    LET has(k) == k \in DOMAIN newconf
        set(k) == IF has(k) THEN newconf[k] ELSE e[k]
        values == IF ConfTruthy(newconf, "unique_key")
                     /\ ConfTruthy(newconf, "unique_values")
                  THEN UniqueValues(newconf["unique_values"])
                  ELSE <<>>
    IN [e EXCEPT !.preserve_n = set("preserve_n"),
                 !.iaas_site = set("iaas_site"),
                 !.iaas_allocation = set("iaas_allocation"),
                 !.deployable_type = set("deployable_type"),
                 !.retirable_nodes = set("retirable_nodes"),
                 !.unique_key = IF values # <<>> THEN newconf["unique_key"] ELSE None,
                 !.unique_values = values]

\* _set_conf that stores preserve_n before it checks its sign
_set_conf_StoreFirst(e, newconf) ==
    IF IsNone(newconf) \/ DOMAIN newconf = {}
    THEN [raised |-> "ValueError", engine |-> e]
    ELSE IF "preserve_n" \in DOMAIN newconf /\ newconf["preserve_n"] < 0
    THEN [raised |-> "ValueError",
          engine |-> [e EXCEPT !.preserve_n = newconf["preserve_n"]]]
    ELSE [raised |-> None, engine |-> ApplyConf(e, newconf)]

\* _set_conf: the exception it raises, if any, and the engine after it
_set_conf(e, newconf) ==
    IF IsNone(newconf) \/ DOMAIN newconf = {}
    THEN [raised |-> "ValueError", engine |-> e]
    ELSE IF "preserve_n" \in DOMAIN newconf /\ newconf["preserve_n"] < 0
    THEN [raised |-> "ValueError", engine |-> e]
    ELSE [raised |-> None, engine |-> ApplyConf(e, newconf)]

(* epu.states, the EngineState snapshot and the Control of a domain *)

\* InstanceState: the order of the instance states
InstanceStateRank(s) ==
    CASE s = "REQUESTING"  -> 1
      [] s = "REQUESTED"   -> 2
      [] s = "PENDING"     -> 3
      [] s = "RUNNING"     -> 4
      [] s = "TERMINATING" -> 5
      [] s = "TERMINATED"  -> 6
      [] s = "FAILED"      -> 7

BAD_STATES == {"TERMINATING", "TERMINATED", "FAILED"}

\* state.get_unhealthy_instances(): the ids of the instances whose health is bad
get_unhealthy_instances(insts) ==
    {i \in DOMAIN insts : insts[i].health \in {"MISSING", "ERROR", "ZOMBIE"}}

ControlCall(kind, dt, site, allocation, extravars, id) ==
    [kind |-> kind, dt |-> dt, site |-> site, allocation |-> allocation,
     extravars |-> extravars, id |-> id]

\* control.launch: a new instance in state REQUESTING with these extravars; the
\* call returns its id
launch(d, dt, site, allocation, extravars) ==
    LET id == Len(d.instances) + 1 IN
    [d EXCEPT !.instances = Append(@, [state |-> "REQUESTING", health |-> "UNKNOWN",
                                       extravars |-> extravars]),
              !.calls = Append(@, ControlCall("launch", dt, site, allocation,
                                              extravars, id))]

\* control.destroy_instances([id]): the instance is TERMINATING unless it is
\* past that already
destroy_instances(d, id) ==
    [d EXCEPT !.instances[id].state =
                IF InstanceStateRank(@) < InstanceStateRank("TERMINATING")
                THEN "TERMINATING" ELSE @,
              !.calls = Append(@, ControlCall("destroy", None, None, None, NoneMap, id))]

\* Engine._set_state_pending and Engine._set_state of a cycle that met its target
_set_state_pending(e) == [e EXCEPT !.state = "pending"]
_set_state(e) == [e EXCEPT !.state = "stable"]

(* decide *)

_destroy_one(d, instanceid) == destroy_instances(d, instanceid)

\* _launch_one: the exception of an incomplete launch configuration, or the launch
_launch_one(d, extravars) ==
    IF d.engine.iaas_site = None \/ d.engine.iaas_allocation = None
       \/ d.engine.deployable_type = None
    THEN [d EXCEPT !.raised = "Exception"]
    ELSE launch(d, d.engine.deployable_type, d.engine.iaas_site,
                d.engine.iaas_allocation, extravars)

UnhealthyLoop_Skip(d, unhealthy) == d

\* the loop over the unhealthy instances (here in the order of their ids)
RECURSIVE UnhealthyLoop(_, _)
UnhealthyLoop(d, unhealthy) ==
    IF unhealthy = {} THEN d
    ELSE LET i == CHOOSE k \in unhealthy : \A j \in unhealthy : k <= j
         IN UnhealthyLoop(_destroy_one(d, i), unhealthy \ {i})

\* valid_uniques_set taken over every instance, the ended ones too
ValidUniques_Every(e, insts, valid_set) ==
    IF e.unique_key = None THEN {}
    ELSE {PropGet(insts[i].extravars, e.unique_key) : i \in DOMAIN insts} \ {None}

\* valid_uniques_set: the values valid instances hold under the unique key
ValidUniques(e, insts, valid_set) ==
    IF e.unique_key = None THEN {}
    ELSE {PropGet(insts[i].extravars, e.unique_key) : i \in valid_set} \ {None}

\* next_uniques without the filter
NextUniques_Unfiltered(e, valid_uniques_set) == e.unique_values

\* ifilter(lambda v: v not in valid_uniques_set, unique_values)
NextUniques(e, valid_uniques_set) ==
    SelectSeq(e.unique_values, LAMBDA v : v \notin valid_uniques_set)

\* the launch loop that stops after one launch
LaunchLoop_Single(d, valid_count, next_uniques, k) ==
    IF ~(valid_count < d.engine.preserve_n) \/ d.raised # None THEN d
    ELSE _launch_one(d, IF d.engine.unique_key = None THEN NoneMap
                        ELSE (d.engine.unique_key :>
                                IF k <= Len(next_uniques) THEN next_uniques[k] ELSE None))

\* the launch loop: the k-th launch takes the k-th of next_uniques, or None
RECURSIVE LaunchLoop(_, _, _, _)
LaunchLoop(d, valid_count, next_uniques, k) ==
    IF ~(valid_count < d.engine.preserve_n) \/ d.raised # None THEN d
    ELSE LET extravars ==
                 IF d.engine.unique_key = None THEN NoneMap
                 ELSE (d.engine.unique_key :>
                         IF k <= Len(next_uniques) THEN next_uniques[k] ELSE None)
         IN LaunchLoop(_launch_one(d, extravars), valid_count + 1, next_uniques, k + 1)

\* the destroy loop that takes any valid instance, retirable or not
RECURSIVE DestroyLoop_NoPreference(_, _, _)
DestroyLoop_NoPreference(d, valid_set, valid_count) ==
    IF ~(valid_count > d.engine.preserve_n) THEN {d}
    ELSE UNION {DestroyLoop_NoPreference(_destroy_one(d, die_id), valid_set \ {die_id},
                                         valid_count - 1) : die_id \in valid_set}

\* the destroy loop: the set of its outcomes.  die_id is the first id of valid_set,
\* in the iteration order of that set, which retirable_nodes holds, or else a
\* random one
RECURSIVE DestroyLoop(_, _, _)
DestroyLoop(d, valid_set, valid_count) ==
    IF ~(valid_count > d.engine.preserve_n) THEN {d}
    ELSE LET retirable == {i \in valid_set : InSeq(i, d.engine.retirable_nodes)}
             choices == IF retirable # {} THEN retirable ELSE valid_set
         IN UNION {DestroyLoop(_destroy_one(d, die_id), valid_set \ {die_id},
                               valid_count - 1) : die_id \in choices}

\* valid_set that takes only the ended instances as invalid
ValidSet_KeepTerminating(insts) ==
    {i \in DOMAIN insts : insts[i].state \notin {"TERMINATED", "FAILED"}}

\* valid_set as decide first builds it: the instances not in a bad state
ValidSet(insts) == {i \in DOMAIN insts : insts[i].state \notin BAD_STATES}

\* decide on the snapshot insts: the set of its outcomes, each with the exception
\* raised, if any, the engine, the instances and the calls made
decide(e, insts) ==
    LET all_valid == ValidSet(insts)
        unhealthy == get_unhealthy_instances(insts)
        d0 == UnhealthyLoop([engine |-> e, instances |-> insts, calls |-> <<>>,
                             raised |-> None], unhealthy)
        valid_set == all_valid \ unhealthy
        valid_count == Cardinality(valid_set)
        done(d) == IF d.raised # None THEN d
                   ELSE [d EXCEPT !.engine.decide_count = @ + 1]
    IN IF valid_count = e.preserve_n
       THEN {done([d0 EXCEPT !.engine = _set_state(@)])}
       ELSE IF valid_count < e.preserve_n
       THEN {done([d1 EXCEPT !.engine = IF d1.raised # None THEN @
                                        ELSE _set_state_pending(@)]) :
               d1 \in {LaunchLoop(d0, valid_count,
                                  NextUniques(e, ValidUniques(e, insts, valid_set)), 1)}}
       ELSE {done([d1 EXCEPT !.engine = _set_state_pending(@)]) :
               d1 \in DestroyLoop(d0, valid_set, valid_count)}

\* initialize(control, state, conf)
initialize(e, conf) ==
    LET r == _set_conf(e, conf) IN
    IF r.raised # None THEN r
    ELSE [r EXCEPT !.engine.initialize_count = @ + 1, !.engine.initialize_conf = conf]

\* reconfigure(control, newconf)
reconfigure(e, newconf) ==
    IF IsNone(newconf) \/ DOMAIN newconf = {}
    THEN [raised |-> "ValueError", engine |-> e]
    ELSE LET r == _set_conf(e, newconf) IN
         IF r.raised # None THEN r
         ELSE [r EXCEPT !.engine.reconfigure_count = @ + 1]

(* the calls a domain's engine receives from the decider, and the reports about
   its instances *)

LaunchConf == [iaas_site |-> "s1", iaas_allocation |-> "a1", deployable_type |-> "dt1"]
PreserveNs == {-1, 0, 1, 2, 3, 4}
RetirableChoices == {<<2>>, <<3, 1>>}
UniqueChoices == {List(<<"A", "B", "C">>), Str(<<"A", ",", " ", "B", ",", "C", " ">>),
                  Str(<<" ">>), List(<<>>)}

EngineConfs ==
    {NoneMap, [k \in {} |-> None]}
    \cup {LaunchConf @@ [preserve_n |-> n] : n \in PreserveNs}
    \cup {[preserve_n |-> n] : n \in PreserveNs}
    \cup {[preserve_n |-> n, retirable_nodes |-> r] :
            n \in {0, 1, 2}, r \in RetirableChoices}
    \cup {LaunchConf @@ [preserve_n |-> 2, unique_key |-> "slot", unique_values |-> v] :
            v \in UniqueChoices}
    \cup {[preserve_n |-> 2, iaas_site |-> "s1"]}

InfoStates == {"RUNNING", "TERMINATED", "FAILED"}
HealthStates == {"OK", "ERROR"}

EngineCommit(e, insts, cs, o) ==
    /\ UNCHANGED <<pdc_vars, reactor_vars, match_vars>>
    /\ Len(insts) <= MaxInstances
    /\ engine' = e
    /\ instances' = insts
    /\ calls' = cs
    /\ eop' = [o EXCEPT !.n = eop.n + 1]

\* the decider initializes the engine once, before any decide or reconfigure
Initialize ==
    /\ eop.n < MaxEngineOps
    /\ engine.initialize_count = 0
    /\ \E conf \in EngineConfs :
         LET r == initialize(engine, conf) IN
         EngineCommit(r.engine, instances, <<>>,
                      EngineOp("initialize", conf, r.raised))

Reconfigure ==
    /\ eop.n < MaxEngineOps
    /\ engine.initialize_count > 0
    /\ \E newconf \in EngineConfs :
         LET r == reconfigure(engine, newconf) IN
         EngineCommit(r.engine, instances, <<>>,
                      EngineOp("reconfigure", newconf, r.raised))

Decide ==
    /\ eop.n < MaxEngineOps
    /\ engine.initialize_count > 0
    /\ \E d \in decide(engine, instances) :
         EngineCommit(d.engine, d.instances, d.calls,
                      EngineOp("decide", NoneMap, d.raised))

\* the provisioner reports a later state of an instance
InstanceInfo ==
    /\ eop.n < MaxEngineOps
    /\ \E i \in DOMAIN instances, s \in InfoStates :
         /\ InstanceStateRank(s) > InstanceStateRank(instances[i].state)
         /\ EngineCommit(engine, [instances EXCEPT ![i].state = s], <<>>,
                         EngineOp("instance_info", NoneMap, None))

\* the health monitor reports another health of an instance
InstanceHealth ==
    /\ eop.n < MaxEngineOps
    /\ \E i \in DOMAIN instances, h \in HealthStates :
         /\ h # instances[i].health
         /\ EngineCommit(engine, [instances EXCEPT ![i].health = h], <<>>,
                         EngineOp("instance_health", NoneMap, None))

NeedyNext == Initialize \/ Reconfigure \/ Decide \/ InstanceInfo \/ InstanceHealth

NeedySpec == Init /\ [][NeedyNext]_vars

(* a domain left to its engine: the target is fixed, the launch configuration is
   complete, no instance is unhealthy and only decide cycles run *)

InstanceStates == {"REQUESTING", "REQUESTED", "PENDING", "RUNNING",
                   "TERMINATING", "TERMINATED", "FAILED"}

\* the instances of the domain when it is left alone, few enough for the launches
\* of a cycle to stay within MaxInstances
QuietInstances ==
    UNION {[1..n -> [state : InstanceStates, health : {"OK"}, extravars : {NoneMap}]] :
             n \in 0..(MaxInstances - 2)}

QuietInit ==
    /\ processes = <<>> /\ resources = <<>> /\ nodes = <<>> /\ queue = <<>>
    /\ out = <<>> /\ op = Op("init", None, None, None, None) /\ nops = 0 /\ removed = {}
    /\ \E n \in {0, 1, 2} :
         LET conf == LaunchConf @@ [preserve_n |-> n] IN
         /\ engine = initialize(NeedyEngine, conf).engine
         /\ eop = EngineOp("initialize", conf, None)
    /\ instances \in QuietInstances
    /\ calls = <<>>
    /\ ReactorInit
    /\ MatchInit

\* the decider runs decide cycles for as long as it leads the domain
QuietDecide == Decide

NeedyQuietSpec == QuietInit /\ [][QuietDecide]_vars /\ WF_vars(QuietDecide)

(* a domain under health monitoring: the engine is initialized with a complete
   launch configuration, and an instance of the domain may have reached any
   state and been reported unhealthy before the next decide cycle *)

MonitoredInstances ==
    UNION {[1..n -> [state : InstanceStates, health : HealthStates, extravars : {NoneMap}]] :
             n \in 0..1}

MonitoredInit ==
    /\ processes = <<>> /\ resources = <<>> /\ nodes = <<>> /\ queue = <<>>
    /\ out = <<>> /\ op = Op("init", None, None, None, None) /\ nops = 0 /\ removed = {}
    /\ \E n \in {0, 1, 2} :
         LET conf == LaunchConf @@ [preserve_n |-> n] IN
         /\ engine = initialize(NeedyEngine, conf).engine
         /\ eop = EngineOp("initialize", conf, None)
    /\ instances \in MonitoredInstances
    /\ calls = <<>>
    /\ ReactorInit
    /\ MatchInit

MonitoredNext == Decide \/ InstanceInfo \/ InstanceHealth

NeedyMonitoredSpec == MonitoredInit /\ [][MonitoredNext]_vars

(* ------------------------------ EPUM reactor --------------------------- *)

MaxReactorOps == 4
MaxTime == 2

InstanceHealthStates == {"UNKNOWN", "OK", "MISSING", "ERROR", "ZOMBIE"}
InstanceIds == {"i1", "i2"}

\* a call the handler made: on the domain of the store or on the subscribers
RCall(kind, id, arg) == [kind |-> kind, id |-> id, arg |-> arg]

\* the record of an instance (heartbeat_time 0: no heartbeat stored yet)
CoreInstance(state) ==
    [state |-> state, health |-> "UNKNOWN", heartbeat_time |-> 0,
     error_time |-> None, errors |-> <<>>]

\* store.get_domain_for_instance_id: whether the reverse lookup finds the domain
get_domain_for_instance_id(s, instance_id) == instance_id \in s.ids

\* domain.get_instance: the record, or None
get_instance(s, instance_id) ==
    IF instance_id \in DOMAIN s.instances THEN s.instances[instance_id] ELSE NoneMap

PutInstance(s, instance_id, instance) ==
    [s EXCEPT !.instances =
        [i \in DOMAIN s.instances \cup {instance_id} |->
            IF i = instance_id THEN instance ELSE s.instances[i]]]

\* domain.new_instance_state(content, previous): the state of an instance never
\* moves backward, a lower state than the stored one is a no-op
domain_new_instance_state(s, content, previous) ==
    IF IsNone(previous)
    THEN PutInstance(s, content.node_id, CoreInstance(content.state))
    ELSE IF InstanceStateRank(content.state) < InstanceStateRank(previous.state)
    THEN s
    ELSE PutInstance(s, content.node_id, [previous EXCEPT !.state = content.state])

\* domain.new_instance_health(instance_id, state, error_time, errors, caller)
domain_new_instance_health(s, instance_id, state, error_time, errors) ==
    PutInstance(s, instance_id,
        [s.instances[instance_id] EXCEPT !.health = state,
                                         !.error_time = error_time,
                                         !.errors = errors])

\* domain.set_instance_heartbeat_time(instance_id, timestamp)
set_instance_heartbeat_time(s, instance_id, timestamp) ==
    PutInstance(s, instance_id,
        [s.instances[instance_id] EXCEPT !.heartbeat_time = timestamp])

Handled(s, cs, raised) == [store |-> s, calls |-> cs, raised |-> raised]

notify_state_Raw(state) == state

\* what the clients of EPUM see of a state that is RUNNING or later
notify_state(state) == IF state = "RUNNING" THEN "RUNNING" ELSE "FAILED"

notify_subscribers_Propagated(h, instance_id, state, fails) ==
    Handled(h.store, Append(h.calls, RCall("notify_subscribers", instance_id, state)),
            fails)

\* the call of subscribers.notify_subscribers inside its try: an exception of
\* the notifier (fails) is caught and logged
notify_subscribers(h, instance_id, state, fails) ==
    Handled(h.store, Append(h.calls, RCall("notify_subscribers", instance_id, state)),
            FALSE)

\* EPUMReactor.new_instance_state(content); notify_fails: the notifier raises
new_instance_state(s, content, notify_fails) ==
    IF ~({"node_id", "state"} \subseteq DOMAIN content) THEN Handled(s, <<>>, FALSE)
    ELSE LET instance_id == content.node_id
             state == content.state IN
    IF instance_id = None THEN Handled(s, <<>>, FALSE)
    ELSE IF ~get_domain_for_instance_id(s, instance_id) THEN Handled(s, <<>>, FALSE)
    ELSE LET instance == get_instance(s, instance_id)
             s2 == domain_new_instance_state(s, content, instance)
             cs == <<RCall("new_instance_state", instance_id, state)>> IN
    IF InstanceStateRank(state) < InstanceStateRank("RUNNING")
    THEN Handled(s2, cs, FALSE)
    ELSE notify_subscribers(Handled(s2, cs, FALSE), instance_id, notify_state(state),
                            notify_fails)

\* the errors list of a heartbeat that is not OK
HeartbeatErrors(content) ==
    (IF "error" \in DOMAIN content /\ content.error # ""
     THEN <<content.error>> ELSE <<>>)
    \o (IF "failed_processes" \in DOMAIN content THEN content.failed_processes
        ELSE <<>>)

HealthUpdate_AnyChange(instance, state) == state # instance.health

\* whether the heartbeat makes the handler call new_instance_health
HealthUpdate(instance, state) ==
    IF state = "OK"
    THEN /\ instance.health \notin {"OK", "ZOMBIE"}
         /\ InstanceStateRank(instance.state) < InstanceStateRank("TERMINATED")
    ELSE state # instance.health

HealthWriteFailed_Stamped(s, instance_id, timestamp) ==
    Handled(set_instance_heartbeat_time(s, instance_id, timestamp),
            <<RCall("set_instance_heartbeat_time", instance_id, timestamp)>>, TRUE)

\* new_instance_health raised: the exception leaves new_heartbeat at that call
HealthWriteFailed(s, instance_id, timestamp) == Handled(s, <<>>, TRUE)

\* EPUMReactor.new_heartbeat(caller, content, timestamp); fails: new_instance_health
\* raises (the store could not write), which ends the handler
new_heartbeat(s, content, timestamp, fails) ==
    IF ~({"node_id", "state"} \subseteq DOMAIN content) THEN Handled(s, <<>>, FALSE)
    ELSE LET instance_id == content.node_id
             state == content.state IN
    IF ~get_domain_for_instance_id(s, instance_id) THEN Handled(s, <<>>, FALSE)
    ELSE IF ~s.health_enabled THEN Handled(s, <<>>, FALSE)
    ELSE LET instance == get_instance(s, instance_id) IN
    IF IsNone(instance) THEN Handled(s, <<>>, FALSE)
    ELSE LET update == HealthUpdate(instance, state)
             error_time == IF state = "OK" THEN None ELSE PropGet(content, "error_time")
             errors == IF state = "OK" THEN <<>> ELSE HeartbeatErrors(content)
             s2 == IF update
                   THEN domain_new_instance_health(s, instance_id, state, error_time, errors)
                   ELSE s
             cs == IF update THEN <<RCall("new_instance_health", instance_id, state)>>
                   ELSE <<>> IN
    IF update /\ fails THEN HealthWriteFailed(s, instance_id, timestamp)
    ELSE Handled(set_instance_heartbeat_time(s2, instance_id, timestamp),
                 Append(cs, RCall("set_instance_heartbeat_time", instance_id, timestamp)),
                 FALSE)

\* the messages the reactor is given
StateContents ==
    {[node_id |-> i, state |-> st] : i \in InstanceIds \cup {None}, st \in InstanceStates}
    \cup {[node_id |-> "i1"], [state |-> "RUNNING"]}

ErrorReports ==
    {<<>>, [error |-> ""],
     [error_time |-> "t1", error |-> "e", failed_processes |-> <<"p">>]}

HeartbeatContents ==
    {[node_id |-> i, state |-> h] @@ r :
        i \in InstanceIds, h \in InstanceHealthStates, r \in ErrorReports}
    \cup {[node_id |-> "i1"], [state |-> "OK"]}

ReactorOp(name, content, timestamp, raised) ==
    [name |-> name, content |-> content, timestamp |-> timestamp, raised |-> raised,
     notify_failed |-> FALSE, n |-> rop.n + 1]

ReactorCommit(h, o) ==
    /\ UNCHANGED <<pdc_vars, engine_vars, match_vars>>
    /\ store' = h.store
    /\ rcalls' = h.calls
    /\ rop' = o

\* Control.launch of the domain's engine: the store learns a new instance; the
\* reverse lookup and the record are two writes, recorded says whether the
\* second one was made before the next message
NewInstanceLaunch ==
    /\ rop.n < MaxReactorOps
    /\ \E i \in InstanceIds \ store.ids, recorded \in BOOLEAN :
         LET s == [store EXCEPT !.ids = @ \cup {i}] IN
         ReactorCommit(
             Handled(IF recorded THEN PutInstance(s, i, CoreInstance("REQUESTING"))
                     ELSE s, <<>>, FALSE),
             ReactorOp("new_instance_launch", [node_id |-> i], 0, FALSE))

\* EPUMReactor.reconfigure_domain with a health section that turns monitoring
\* on or off
ReconfigureDomain ==
    /\ rop.n < MaxReactorOps
    /\ \E enabled \in BOOLEAN :
         ReactorCommit(Handled([store EXCEPT !.health_enabled = enabled], <<>>, FALSE),
                       ReactorOp("reconfigure_domain", NoneMap, 0, FALSE))

NewInstanceState ==
    /\ rop.n < MaxReactorOps
    /\ \E content \in StateContents, notify_fails \in BOOLEAN :
         LET h == new_instance_state(store, content, notify_fails)
             notified == Len(h.calls) > 1 IN
         ReactorCommit(h, [ReactorOp("new_instance_state", content, 0, h.raised)
                               EXCEPT !.notify_failed = notified /\ notify_fails])

NewHeartbeat ==
    /\ rop.n < MaxReactorOps
    /\ \E content \in HeartbeatContents, timestamp \in 1..MaxTime, fails \in BOOLEAN :
         LET h == new_heartbeat(store, content, timestamp, fails) IN
         ReactorCommit(h, ReactorOp("new_heartbeat", content, timestamp, h.raised))

ReactorNext == NewInstanceLaunch \/ ReconfigureDomain \/ NewInstanceState \/ NewHeartbeat

ReactorSpec == Init /\ [][ReactorNext]_vars

(* ---------------------- match_constraints on its own ------------------- *)

MatchKeys == {"k1", "k2"}
\* a constraint value: null, a scalar, a list or tuple of scalars
ConstraintValues == {NullV, Scalar("a"), List(<<"a", "b">>), List(<<>>)}
\* an advertised property value, None for null
PropertyValues == {None, "a", "b", "c"}

\* constraints and properties: None, or a mapping of some of the keys
ConstraintInputs ==
    {NoneMap} \cup UNION {[S -> ConstraintValues] : S \in SUBSET MatchKeys}
PropertyInputs ==
    {NoneMap} \cup UNION {[S -> PropertyValues] : S \in SUBSET MatchKeys}

MatchInputs ==
    /\ processes = <<>> /\ resources = <<>> /\ nodes = <<>> /\ queue = <<>>
    /\ out = <<>> /\ op = Op("init", None, None, None, None) /\ nops = 0 /\ removed = {}
    /\ EngineInit
    /\ ReactorInit
    /\ mc \in [constraints : ConstraintInputs, properties : PropertyInputs,
               applied : {FALSE}, result : {FALSE}]

MatchConstraints ==
    /\ ~mc.applied
    /\ mc' = [mc EXCEPT !.applied = TRUE,
                        !.result = match_constraints(mc.constraints, mc.properties)]
    /\ UNCHANGED <<pdc_vars, engine_vars, reactor_vars>>

MatchSpec == MatchInputs /\ [][MatchConstraints]_vars

(* ------------------------------ properties ---------------------------- *)

Known == DOMAIN processes

AtLeast(s, t) == ProcessStateRank(s) >= ProcessStateRank(t)
Below(s, t) == ProcessStateRank(s) < ProcessStateRank(t)

\* the calls of one kind made for a upid, in order
Calls(o, kind, upid) == SelectSeq(o, LAMBDA m : m.kind = kind /\ m.upid = upid)

InQueue(q, upid) == \E i \in 1..Len(q) : q[i] = upid

\* C1: a dispatch_process of a upid the core knows returns the record as it is,
\* changes no table and makes no call; a dispatch_process of a new upid ends in
\* exactly one of one launch_process call, one queue entry, one REJECTED decision
C1_DispatchIdempotent ==
    [][op'.name = "dispatch_process" =>
        LET u == op'.upid IN
        IF u \in Known
        THEN /\ processes' = processes /\ resources' = resources
             /\ nodes' = nodes /\ queue' = queue
             /\ out' = <<>>
             /\ op'.ret = processes[u]
        ELSE LET p == processes'[u]
                 launched == /\ Len(out') = 1 /\ out'[1].kind = "launch" /\ out'[1].upid = u
                             /\ p.state = "PENDING" /\ queue' = queue
                 queued == /\ out' = <<>> /\ p.state = "WAITING"
                           /\ queue' = Append(queue, u)
                 rejected == /\ out' = <<>> /\ p.state = "REJECTED" /\ queue' = queue
             IN /\ launched \/ queued \/ rejected
                /\ op'.ret = p
                /\ \A v \in Known : processes'[v] = processes[v]]_vars

\* a dispatch_process repeated for a process that was launched
C1_Witness ==
    /\ op.name = "dispatch_process" /\ op.arg = "known"
    /\ op.ret.state = "PENDING" /\ out = <<>>

\* C2 as stated: consecutive terminate_process calls leave the record in a state
\* >= TERMINATED and call eeagent_client.terminate_process at most once in all
C2_TerminateOnceTerminal ==
    [][op'.name = "terminate_process" /\ op'.upid \in Known =>
        /\ AtLeast(processes'[op'.upid].state, "TERMINATED")
        /\ (op.name = "terminate_process" /\ op.upid = op'.upid /\ out # <<>>
              => out' = <<>>)]_vars

\* C2 amended: terminate_process leaves the record TERMINATING (it was assigned and
\* below TERMINATED) or in a state >= TERMINATED; a repeated call leaves the
\* record as it is; each call on an assigned process below TERMINATED makes one
\* terminate_process(assigned, upid, round) call, any other call makes none
C2_TerminateIdempotentRecord ==
    [][op'.name = "terminate_process" /\ op'.upid \in Known =>
        LET u == op'.upid
            p == processes[u]
            live == p.assigned # None /\ Below(p.state, "TERMINATED")
        IN /\ processes'[u].state =
                IF AtLeast(p.state, "TERMINATED") THEN p.state
                ELSE IF p.assigned = None THEN "TERMINATED" ELSE "TERMINATING"
           /\ processes' = [processes EXCEPT ![u].state = processes'[u].state]
           /\ out' = IF live
                     THEN <<Msg("terminate", p.assigned, u, p.round, None, NoSpec)>>
                     ELSE <<>>
           /\ (op.name = "terminate_process" /\ op.upid = u => processes' = processes)
           /\ resources' = resources /\ queue' = queue
           /\ op'.ret = processes'[u]]_vars

\* a second terminate_process in a row of an assigned process, which called the
\* EE agent again
C2_Witness ==
    /\ op.name = "terminate_process" /\ op.arg = "assigned"
    /\ processes[op.upid].state = "TERMINATING"
    /\ Len(out) = 1 /\ out[1].kind = "terminate"
    /\ nops >= 2

\* C3: assigned is null in REQUESTED, WAITING, REJECTED, DIED_REQUESTED, TERMINATED
\* and FAILED, and non-null in PENDING, RUNNING and TERMINATING
C3_AssignedMatchesState ==
    \A u \in Known :
        /\ processes[u].state \in {"REQUESTED", "WAITING", "REJECTED", "DIED_REQUESTED",
                                   "TERMINATED", "FAILED"}
             => processes[u].assigned = None
        /\ processes[u].state \in {"PENDING", "RUNNING", "TERMINATING"}
             => processes[u].assigned # None

\* the places a upid is held in: the queue, pending sets, processes sets
Places(upid) ==
    (IF InQueue(queue, upid) THEN 1 ELSE 0)
    + Cardinality({ee \in DOMAIN resources : upid \in resources[ee].pending})
    + Cardinality({ee \in DOMAIN resources : InSeq(upid, resources[ee].processes)})

\* C4: each upid is in at most one of the queue, a resource's pending set, a
\* resource's processes set
C4_OnePlace == \A u \in Upids : Places(u) <= 1

\* C5: an assigned process that is not terminal or restart-pending refers to a
\* resource in the resource table
C5_AssignedResourceExists ==
    \A u \in Known :
        (/\ processes[u].assigned # None
         /\ processes[u].state \notin {"TERMINATED", "FAILED", "REJECTED", "DIED_REQUESTED"})
          => processes[u].assigned \in DOMAIN resources

\* C6: no handler lowers a round, and a launch_process made by the rematch of
\* dt_state follows the DIED_REQUESTED notification of its process and carries
\* the round of that notification, which is above the round before the call
C6_RoundGrows ==
    [][/\ \A u \in Known : processes'[u].round >= processes[u].round
       /\ op'.name = "dt_state" =>
            \A i \in 1..Len(out') :
                out'[i].kind = "launch" =>
                    /\ out'[i].round > processes[out'[i].upid].round
                    /\ \E j \in 1..(i - 1) :
                         /\ out'[j].kind = "notify" /\ out'[j].upid = out'[i].upid
                         /\ out'[j].state = "DIED_REQUESTED"
                         /\ out'[j].round = out'[i].round]_vars

\* a node loss whose rematch launched a process again
C6_Witness ==
    /\ op.name = "dt_state" /\ op.arg = "removed"
    /\ \E i \in 1..Len(out) :
         /\ out[i].kind = "launch" /\ out[i].round = 1
         /\ processes[out[i].upid].round = 1
         /\ processes[out[i].upid].state = "PENDING"

\* C7: an entry of a beat whose round is below the round of its process leaves
\* the record as it is and makes no notifier or EE agent call
C7_StaleEntryDropped == op.name = "ee_heartbeart" => ~op.staleEffect

\* a beat with a stale entry for a process that was launched again
C7_Witness ==
    /\ op.name = "ee_heartbeart" /\ op.stale # {}
    /\ \A u \in op.stale : processes[u].round = 1 /\ processes[u].state = "PENDING"
    /\ out = <<>>

\* the resources _matchmake_process may pick for a record with these constraints
Candidates(constraints) ==
    {ee \in DOMAIN resources :
        /\ resources[ee].enabled
        /\ resources[ee].slot_count - Len(resources[ee].processes)
             - Cardinality(resources[ee].pending) > 0
        /\ match_constraints(constraints, resources[ee].properties)}

C9_NoCandidate ==
    [][/\ op'.name = "dispatch_process" /\ op'.arg = "new" =>
            LET u == op'.upid
                p == processes'[u]
            IN Candidates(p.constraints) = {} =>
                 /\ out' = <<>>
                 /\ p.assigned = None
                 /\ resources' = resources
                 /\ IF p.immediate
                    THEN p.state = "REJECTED" /\ queue' = queue
                    ELSE p.state = "WAITING" /\ queue' = Append(queue, u)
       /\ \A u \in Known :
            processes[u].state = "REJECTED" =>
                /\ processes'[u] = processes[u]
                /\ ~InQueue(queue', u)
                /\ Calls(out', "launch", u) = <<>>]_vars

\* an immediate process rejected while another process waits in the queue
C9_Witness ==
    /\ op.name = "dispatch_process" /\ op.arg = "new" /\ op.ret.state = "REJECTED"
    /\ \E u \in Known : processes[u].state = "WAITING" /\ InQueue(queue, u)

\* C10: a node loss makes exactly two notifications for each process of the node
\* below TERMINATING, DIED_REQUESTED (round raised, assigned cleared) and then
\* the state after the rematch, and launches nothing on the node
C10_TwoNotifications ==
    [][op'.name = "dt_state" /\ op'.arg = "removed" =>
        /\ \A u \in Known :
             (/\ processes[u].assigned \in DOMAIN resources
              /\ resources[processes[u].assigned].node_id = op'.node
              /\ Below(processes[u].state, "TERMINATING"))
               => LET ns == Calls(out', "notify", u) IN
                  /\ Len(ns) = 2
                  /\ ns[1].state = "DIED_REQUESTED"
                  /\ ns[1].round = processes[u].round + 1
                  /\ ns[1].ee = None
                  /\ ns[2].state \in {"WAITING", "PENDING", "REJECTED"}
        /\ \A i \in 1..Len(out') :
             out'[i].kind = "launch" => resources[out'[i].ee].node_id # op'.node]_vars

\* the resources of a node, as the resource table has them
ResourcesOf(node_id) == {ee \in DOMAIN resources : resources[ee].node_id = node_id}

\* C11: a node loss handles every process assigned to a resource of the node,
\* listed in its processes or only in its pending set: a TERMINATING one becomes
\* TERMINATED, one below TERMINATING is rescheduled under the next round, and
\* none stays PENDING, RUNNING or TERMINATING on a removed resource
C11_NodeLossHandlesAll ==
    [][op'.name = "dt_state" /\ op'.arg = "removed" =>
        \A u \in Known :
            processes[u].assigned \in ResourcesOf(op'.node) =>
                LET p == processes[u]
                    q == processes'[u]
                IN /\ p.state = "TERMINATING" => q.state = "TERMINATED"
                   /\ Below(p.state, "TERMINATING") => q.round = p.round + 1
                   /\ ~(/\ q.assigned = p.assigned
                        /\ q.state \in {"PENDING", "RUNNING", "TERMINATING"})]_vars

\* C12: an ee_heartbeart of a sender whose node is not in the node table changes
\* no table and makes no call, and every launch_process call names a resource of
\* the resource table whose node is in the node table
C12_UnknownNodeIgnored ==
    [][/\ (op'.name = "ee_heartbeart" /\ op'.node \notin DOMAIN nodes) =>
            /\ processes' = processes /\ resources' = resources
            /\ nodes' = nodes /\ queue' = queue
            /\ out' = <<>>
       /\ \A i \in 1..Len(out') :
            out'[i].kind = "launch" =>
                /\ out'[i].ee \in DOMAIN resources'
                /\ resources'[out'[i].ee].node_id \in DOMAIN nodes']_vars

\* a heartbeat of an EE whose node was removed, ignored while a process waits in
\* the queue
C12_Witness ==
    /\ op.name = "ee_heartbeart" /\ op.arg = "unknown node"
    /\ queue # <<>>
    /\ \E u \in Known : processes[u].round = 1 /\ processes[u].state = "WAITING"

\* C13: a reschedule that ends REJECTED, in dt_state or in ee_heartbeart, sends a
\* notification carrying the state REJECTED for that process
C13_RejectedNotified ==
    [][op'.name \in {"dt_state", "ee_heartbeart"} =>
        \A u \in Known :
            (processes[u].state # "REJECTED" /\ processes'[u].state = "REJECTED") =>
                \E i \in 1..Len(out') :
                    /\ out'[i].kind = "notify" /\ out'[i].upid = u
                    /\ out'[i].state = "REJECTED"]_vars

(* the Needy engine *)

\* the instances that are not TERMINATING, TERMINATED or FAILED
ValidInstances ==
    {i \in DOMAIN instances :
        instances[i].state \notin {"TERMINATING", "TERMINATED", "FAILED"}}

\* the valid instances the snapshot does not report unhealthy
HealthyValid == ValidInstances \ get_unhealthy_instances(instances)

Launches(cs) == SelectSeq(cs, LAMBDA c : c.kind = "launch")
Destroys(cs) == SelectSeq(cs, LAMBDA c : c.kind = "destroy")

LaunchConfigured ==
    /\ engine.iaas_site # None /\ engine.iaas_allocation # None
    /\ engine.deployable_type # None

\* C14: left to its engine, a domain with target N reaches N valid instances and
\* stays there, and a decide cycle run at N valid instances makes no launch and
\* no destroy
C14_NeedyConvergence ==
    /\ <>[](Cardinality(ValidInstances) = engine.preserve_n)
    /\ [][(eop'.name = "decide" /\ Cardinality(ValidInstances) = engine.preserve_n)
            => calls' = <<>> /\ instances' = instances]_vars

\* a second cycle that found the two instances the first one launched, and made
\* no call
C14_Witness ==
    /\ eop.name = "decide" /\ engine.decide_count >= 2
    /\ engine.preserve_n = 2 /\ Cardinality(ValidInstances) = 2
    /\ Len(instances) = MaxInstances
    /\ instances[MaxInstances].state = "REQUESTING"
    /\ calls = <<>> /\ engine.state = "stable"

\* what a scale-up cycle does when it can launch: N - V launches with the
\* configured deployable type, site and allocation, destroys of unhealthy
\* instances only, and the engine state pending
ScaleUp(e, cs, e2) ==
    /\ eop'.result = None
    /\ Len(Launches(cs)) = e.preserve_n - Cardinality(HealthyValid)
    /\ \A i \in 1..Len(cs) :
         IF cs[i].kind = "launch"
         THEN /\ cs[i].dt = e.deployable_type /\ cs[i].site = e.iaas_site
              /\ cs[i].allocation = e.iaas_allocation
         ELSE cs[i].id \in get_unhealthy_instances(instances)
    /\ e2.state = "pending"

\* C15 as stated: a decide with fewer valid, not-unhealthy instances than
\* preserve_n makes N - V launches with the configured type, site and allocation,
\* destroys no healthy instance and leaves the engine state pending
C15_ScaleUp ==
    [][(eop'.name = "decide" /\ Cardinality(HealthyValid) < engine.preserve_n)
         => ScaleUp(engine, calls', engine')]_vars

\* C15 amended: so it is when site, allocation and deployable type are all
\* configured; when one is missing the decide raises at its first launch, having
\* made no launch, and the engine state and decide_count stay as they were
C15_ScaleUpConfigured ==
    [][(eop'.name = "decide" /\ Cardinality(HealthyValid) < engine.preserve_n)
         => IF LaunchConfigured THEN ScaleUp(engine, calls', engine')
            ELSE /\ eop'.result = "Exception"
                 /\ Launches(calls') = <<>>
                 /\ engine' = engine]_vars

\* the startup cycle: no instance, target 2, two launches dt1, s1, a1 without
\* extravars, engine pending
C15_Witness ==
    /\ eop.name = "decide" /\ eop.result = None
    /\ engine.preserve_n = 2 /\ engine.state = "pending"
    /\ calls = <<ControlCall("launch", "dt1", "s1", "a1", NoneMap, 1),
                 ControlCall("launch", "dt1", "s1", "a1", NoneMap, 2)>>

\* the unique values no healthy valid instance holds, in unique_values order
FreeUniques ==
    SelectSeq(engine.unique_values,
              LAMBDA v : \A i \in HealthyValid :
                           PropGet(instances[i].extravars, engine.unique_key) # v)

SettingKeys == {"preserve_n", "iaas_site", "iaas_allocation", "deployable_type",
                "retirable_nodes", "unique_key", "unique_values"}

\* C17: a reconfigure changes only the settings whose keys its conf holds, so a
\* reconfigure of preserve_n alone leaves unique_key and unique_values in force
\* and the launches of the next decide carry the next free values
C17_ReconfigureKeepsUniques ==
    [][(eop'.name = "reconfigure" /\ eop'.result = None) =>
        \A k \in SettingKeys \ DOMAIN eop'.conf : engine'[k] = engine[k]]_vars

Retirable(i) == InSeq(i, engine.retirable_nodes)

\* the ids of the destroy calls made for instances of a set, in call order
DestroyedOf(cs, ids) ==
    LET ds == SelectSeq(cs, LAMBDA c : c.kind = "destroy" /\ c.id \in ids)
    IN [j \in 1..Len(ds) |-> ds[j].id]

\* C18: a decide with k valid instances above preserve_n destroys exactly k valid
\* instances, and destroys one that is not in retirable_nodes only when every
\* valid instance in retirable_nodes was destroyed before it in that cycle
C18_RetirePreference ==
    [][(eop'.name = "decide" /\ Cardinality(HealthyValid) > engine.preserve_n) =>
        LET ds == DestroyedOf(calls', HealthyValid) IN
        /\ Len(ds) = Cardinality(HealthyValid) - engine.preserve_n
        /\ \A i, j \in 1..Len(ds) : i # j => ds[i] # ds[j]
        /\ \A j \in 1..Len(ds) :
             ~Retirable(ds[j]) =>
                \A r \in HealthyValid :
                    Retirable(r) => \E i \in 1..(j - 1) : ds[i] = r]_vars

\* valid instances 1, 2, 3, preserve_n 2, retirable_nodes [2]: one destroy, of 2
C18_Witness ==
    /\ eop.name = "decide" /\ engine.preserve_n = 2 /\ engine.retirable_nodes = <<2>>
    /\ Len(instances) = 3
    /\ instances[1].state = "REQUESTING" /\ instances[3].state = "REQUESTING"
    /\ instances[2].state = "TERMINATING"
    /\ calls = <<ControlCall("destroy", None, None, None, NoneMap, 2)>>

\* the valid instances of retirable_nodes, in the order of that list
RetirableValid == SelectSeq(engine.retirable_nodes, LAMBDA i : i \in HealthyValid)

\* C19: the valid instances a decide destroys are taken from retirable_nodes in
\* the order of that list: the first k of its valid ids when it holds k or more,
\* and all of them, in list order, before any other instance when it holds fewer
C19_RetirableInOrder ==
    [][(eop'.name = "decide" /\ Cardinality(HealthyValid) > engine.preserve_n) =>
        LET ds == DestroyedOf(calls', HealthyValid) IN
        \A j \in 1..Len(ds) : j <= Len(RetirableValid) => ds[j] = RetirableValid[j]]_vars

\* C20: an initialize or reconfigure with a negative preserve_n, and a reconfigure
\* with a null or empty conf, raise a configuration error and leave every setting
\* and every counter of the engine as it was
C20_ConfErrorLeavesEngine ==
    [][(/\ eop'.name \in {"initialize", "reconfigure"}
        /\ \/ ("preserve_n" \in DOMAIN eop'.conf /\ eop'.conf["preserve_n"] < 0)
           \/ (eop'.name = "reconfigure"
                 /\ (IsNone(eop'.conf) \/ DOMAIN eop'.conf = {})))
         => /\ eop'.result = "ValueError"
            /\ engine' = engine
            /\ instances' = instances /\ calls' = <<>>]_vars

\* a reconfigure with a negative preserve_n, with site, allocation and type,
\* refused by an engine that holds unique values and a decided target
C20_Witness ==
    /\ eop.name = "reconfigure" /\ eop.result = "ValueError"
    /\ "preserve_n" \in DOMAIN eop.conf /\ eop.conf["preserve_n"] < 0
    /\ "iaas_site" \in DOMAIN eop.conf
    /\ engine.preserve_n = 2 /\ engine.unique_key = "slot"
    /\ engine.decide_count = 1 /\ engine.reconfigure_count = 0

(* --------------------------- reactor properties ------------------------ *)

\* the message of the handler names an instance whose domain the store finds
ForKnownDomain(content) ==
    /\ {"node_id", "state"} \subseteq DOMAIN content
    /\ content.node_id \in store.ids

Notifications(cs) == SelectSeq(cs, LAMBDA c : c.kind = "notify_subscribers")

\* C21: an instance-state message for an instance of a known domain makes no
\* subscriber notification when its state is below RUNNING, exactly one with
\* RUNNING when it is RUNNING and exactly one with FAILED when it is above
\* RUNNING; the state is handed to the store before the notification, and the
\* store holds it unless it held a later one.
C21_NotificationClassification ==
    [][(rop'.name = "new_instance_state" /\ ForKnownDomain(rop'.content)) =>
         LET id == rop'.content.node_id
             state == rop'.content.state
             sent == Notifications(rcalls') IN
         /\ rcalls'[1] = RCall("new_instance_state", id, state)
         /\ \A k \in 2..Len(rcalls') : rcalls'[k].kind = "notify_subscribers"
         /\ id \in DOMAIN store'.instances
         /\ InstanceStateRank(store'.instances[id].state) >= InstanceStateRank(state)
         /\ InstanceStateRank(state) < InstanceStateRank("RUNNING") => sent = <<>>
         /\ state = "RUNNING" => sent = <<RCall("notify_subscribers", id, "RUNNING")>>
         /\ InstanceStateRank(state) > InstanceStateRank("RUNNING") =>
                sent = <<RCall("notify_subscribers", id, "FAILED")>>
      ]_vars

C21_Witness ==
    /\ rop.name = "new_instance_state"
    /\ rcalls = <<RCall("new_instance_state", "i1", "TERMINATING"),
                  RCall("notify_subscribers", "i1", "FAILED")>>
    /\ store.instances["i1"].state = "TERMINATING"

\* C22: the stored state of an instance never decreases, and an instance-state
\* message whose state is lower than the stored one changes nothing in the store
\* and causes no subscriber notification.
C22_StaleStateDropped ==
    [][(/\ rop'.name = "new_instance_state"
        /\ ForKnownDomain(rop'.content)
        /\ rop'.content.node_id \in DOMAIN store.instances) =>
         LET id == rop'.content.node_id
             stored == store.instances[id].state IN
         /\ InstanceStateRank(store'.instances[id].state) >= InstanceStateRank(stored)
         /\ InstanceStateRank(rop'.content.state) < InstanceStateRank(stored) =>
                /\ store' = store
                /\ Notifications(rcalls') = <<>>
      ]_vars

\* the handler got a heartbeat with both fields for an instance the store holds
HeartbeatFor(content) ==
    /\ {"node_id", "state"} \subseteq DOMAIN content
    /\ content.node_id \in DOMAIN store.instances

\* C23: an OK heartbeat leaves the health of the instance as it is or makes it
\* OK, and it makes it OK only when the health was neither OK nor ZOMBIE and the
\* state of the instance is below TERMINATED; a ZOMBIE instance stays ZOMBIE.
C23_OkHeartbeat ==
    [][(/\ rop'.name = "new_heartbeat"
        /\ HeartbeatFor(rop'.content)
        /\ rop'.content.state = "OK") =>
         LET id == rop'.content.node_id
             instance == store.instances[id]
             health == store'.instances[id].health IN
         /\ health \in {instance.health, "OK"}
         /\ health # instance.health =>
                /\ instance.health \notin {"OK", "ZOMBIE"}
                /\ InstanceStateRank(instance.state) < InstanceStateRank("TERMINATED")
         /\ instance.health = "ZOMBIE" => health = "ZOMBIE"
      ]_vars

\* an OK heartbeat was heard from an instance whose health was not OK
C23_Witness ==
    /\ rop.name = "new_heartbeat"
    /\ "state" \in DOMAIN rop.content
    /\ rop.content.state = "OK"
    /\ rcalls = <<RCall("new_instance_health", "i1", "OK"),
                  RCall("set_instance_heartbeat_time", "i1", rop.timestamp)>>
    /\ store.instances["i1"].health = "OK"
    /\ store.instances["i1"].errors = <<>>

\* C24: whatever instance-state messages and heartbeats were handled, an
\* instance whose health is ZOMBIE has a state of TERMINATED or later.
C24_ZombieOnlyTerminated ==
    \A i \in DOMAIN store.instances :
        store.instances[i].health = "ZOMBIE" =>
            InstanceStateRank(store.instances[i].state) >= InstanceStateRank("TERMINATED")

\* new_heartbeat drops the message: a field is missing, the store finds no
\* domain for the instance, health monitoring is off, or there is no record
HeartbeatDropped(content) ==
    \/ ~({"node_id", "state"} \subseteq DOMAIN content)
    \/ content.node_id \notin store.ids
    \/ ~store.health_enabled
    \/ content.node_id \notin DOMAIN store.instances

HeartbeatTimes(s) == [i \in DOMAIN s.instances |-> s.instances[i].heartbeat_time]

\* C25: new_heartbeat writes the last-heartbeat time after the health update of
\* that heartbeat, if there is one, was stored; when the health update fails or
\* the heartbeat is dropped, no last-heartbeat time changes.
C25_HeartbeatTimeLast ==
    [][rop'.name = "new_heartbeat" =>
         /\ \A j, k \in 1..Len(rcalls') :
                (/\ rcalls'[j].kind = "new_instance_health"
                 /\ rcalls'[k].kind = "set_instance_heartbeat_time") => j < k
         /\ IF HeartbeatDropped(rop'.content) \/ rop'.raised
            THEN /\ store' = store
                 /\ rcalls' = <<>>
            ELSE LET id == rop'.content.node_id IN
                 /\ rcalls'[Len(rcalls')] =
                        RCall("set_instance_heartbeat_time", id, rop'.timestamp)
                 /\ HeartbeatTimes(store') =
                        [HeartbeatTimes(store) EXCEPT ![id] = rop'.timestamp]
                 /\ HealthUpdate(store.instances[id], rop'.content.state) =>
                        /\ Len(rcalls') = 2
                        /\ store'.instances[id].health = rop'.content.state
      ]_vars

\* a heartbeat whose health update failed left the time of the one before
C25_Witness ==
    /\ rop.name = "new_heartbeat"
    /\ rop.raised
    /\ rcalls = <<>>
    /\ store.instances[rop.content.node_id].heartbeat_time \in 1..MaxTime
    /\ store.instances[rop.content.node_id].heartbeat_time # rop.timestamp

(* ----------------------- heartbeat and slot properties ------------------ *)

\* the places of the calls of one kind made for a upid
Positions(o, kind, upid) == {i \in 1..Len(o) : o[i].kind = kind /\ o[i].upid = upid}

\* C26: a heartbeat entry that reports TERMINATED or FAILED for a known process
\* under a round that is not stale (a) makes a TERMINATING process TERMINATED
\* with assigned cleared and one notification, (b) gives a PENDING or RUNNING
\* process the next round, notifies it once as DIED_REQUESTED with assigned
\* cleared and matches it again; in both cases one cleanup_process(sender, upid,
\* reported round) follows the notification.
C26_HeartbeatDeath ==
    [][op'.name = "ee_heartbeart" =>
         \A d \in op'.died :
             LET u == d.upid
                 p == processes[u]
                 q == processes'[u]
                 ns == Calls(out', "notify", u) IN
             /\ d.was = "TERMINATING" =>
                    /\ q.state = "TERMINATED" /\ q.assigned = None /\ q.round = p.round
                    /\ ns = <<Msg("notify", None, u, p.round, "TERMINATED", NoSpec)>>
             /\ d.was \in {"PENDING", "RUNNING"} =>
                    /\ q.round = p.round + 1
                    /\ ns = <<Msg("notify", None, u, p.round + 1, "DIED_REQUESTED", NoSpec)>>
                    /\ q.state \in {"WAITING", "PENDING", "REJECTED"}
                    /\ q.state = "PENDING" =>
                           Calls(out', "launch", u) =
                               <<Msg("launch", q.assigned, u, q.round, None, q.spec)>>
                    /\ q.state = "WAITING" => q.assigned = None /\ InQueue(queue', u)
                    /\ q.state = "REJECTED" => q.assigned = None /\ q.immediate
             /\ d.was \in {"TERMINATING", "PENDING", "RUNNING"} =>
                    /\ Calls(out', "cleanup", u) =
                           <<Msg("cleanup", op'.ee, u, d.round, None, NoSpec)>>
                    /\ \A i \in Positions(out', "notify", u),
                          j \in Positions(out', "cleanup", u) : i < j
      ]_vars

\* a RUNNING process was reported dead and launched again under the next round
C26_Witness ==
    /\ op.name = "ee_heartbeart"
    /\ \E d \in op.died :
         /\ d.was = "RUNNING"
         /\ processes[d.upid].state = "PENDING"
         /\ processes[d.upid].round = d.round + 1
         /\ Len(Calls(out, "cleanup", d.upid)) = 1

\* a TERMINATING process was reported dead
C26_WitnessTerminating ==
    /\ op.name = "ee_heartbeart"
    /\ \E d \in op.died :
         /\ d.was = "TERMINATING"
         /\ processes[d.upid].state = "TERMINATED"

Min(a, b) == IF a < b THEN a ELSE b

\* the entries of q that are in the set ok, in queue order
Among(q, ok) == SelectSeq(q, LAMBDA u : u \in ok)

\* q without its first n entries that are in the set ok
RECURSIVE DropFirst(_, _, _)
DropFirst(q, n, ok) ==
    IF q = <<>> \/ n = 0 THEN q
    ELSE IF Head(q) \in ok THEN DropFirst(Tail(q), n - 1, ok)
    ELSE <<Head(q)>> \o DropFirst(Tail(q), n, ok)

\* C27: when ee_heartbeart considers a resource with a free slots while the
\* queue holds m entries that match it, exactly min(a, m) launches go to the
\* resource, for the earliest matching entries in queue order, these leave the
\* queue and the other entries keep their order.
C27_ConsiderFifo ==
    [][(op'.name = "ee_heartbeart" /\ ~IsNone(op'.considered)) =>
         LET k == op'.considered
             ok == {u \in DOMAIN processes' :
                      match_constraints(processes'[u].constraints,
                                        resources'[k.ee].properties)}
             matching == Among(k.queue, ok)
             n == Min(k.available, Len(matching))
             launched == SubSeq(out', k.calls + 1, Len(out')) IN
         /\ Len(launched) = n
         /\ \A i \in 1..Len(launched) :
                /\ launched[i].kind = "launch"
                /\ launched[i].ee = k.ee
                /\ launched[i].upid = matching[i]
         /\ queue' = DropFirst(k.queue, n, ok)
      ]_vars

\* two queued processes, one free slot: the earlier one is launched
C27_Witness ==
    /\ op.name = "ee_heartbeart"
    /\ ~IsNone(op.considered)
    /\ Len(op.considered.queue) = 2
    /\ op.considered.available = 1
    /\ Len(queue) = 1
    /\ queue[1] = op.considered.queue[2]

\* C28: the available slots of a resource are 0 when it is disabled and
\* max(0, slot_count - |processes| - |pending|) when it is enabled; every launch
\* of a handler goes to a resource that was enabled and had a free slot just
\* before the assignment, so the assignment leaves |processes| + |pending| of
\* the resource within its slot_count.
C28_SlotAccounting ==
    [][/\ \A ee \in DOMAIN resources' :
            LET r == resources'[ee] IN
            available_slots(r) =
                IF r.enabled
                THEN Max(0, r.slot_count - Len(r.processes) - Cardinality(r.pending))
                ELSE 0
       /\ LET launches == SelectSeq(out', LAMBDA m : m.kind = "launch") IN
          /\ Len(launches) = Len(op'.slots)
          /\ \A i \in 1..Len(launches) :
                 LET before == op'.slots[i] IN
                 /\ launches[i].ee = before.ee
                 /\ before.enabled
                 /\ before.available > 0
                 /\ before.used + 1 <= before.slot_count
      ]_vars

\* a heartbeat that filled the last free slot of its resource from the queue
C28_Witness ==
    /\ op.name = "ee_heartbeart"
    /\ Len(op.slots) = 1
    /\ op.slots[1].available = 1
    /\ op.slots[1].used + 1 = op.slots[1].slot_count
    /\ op.slots[1].used > 0

\* a node loss that launched a process of the node on another resource
C28_WitnessNodeLoss ==
    /\ op.name = "dt_state"
    /\ op.arg = "removed"
    /\ Len(op.slots) > 0

(* ---------------------------- constraint matching ----------------------- *)

\* what the constraints ask of the properties, key by key
Satisfied(constraints, properties) ==
    \A k \in DOMAIN constraints :
        LET v == constraints[k] IN
        v # NullV =>
            /\ properties # NoneMap
            /\ k \in DOMAIN properties
            /\ properties[k] # None
            /\ v.kind = "scalar" => properties[k] = v.v
            /\ v.kind = "list" => \E i \in 1..Len(v.vs) : v.vs[i] = properties[k]

\* C29: match_constraints is true exactly when the constraints are null or, for
\* every key with a non-null value, the properties are non-null, hold a non-null
\* value under that key, and that value equals the scalar or is an element of
\* the list; a null constraint value matches anything, a missing key and null
\* properties included.
C29_MatchConstraints ==
    mc.applied =>
        /\ mc.result = (mc.constraints = NoneMap \/ Satisfied(mc.constraints, mc.properties))
        /\ (/\ mc.constraints # NoneMap
            /\ \A k \in DOMAIN mc.constraints : mc.constraints[k] = NullV) => mc.result

\* a null constraint value matched null properties, next to a list that matched
C29_Witness ==
    /\ mc.applied
    /\ mc.result
    /\ mc.constraints = [k1 |-> NullV, k2 |-> List(<<"a", "b">>)]
    /\ mc.properties = [k2 |-> "b"]

\* a null constraint value on its own matched null properties
C29_WitnessNullProperties ==
    /\ mc.applied
    /\ mc.result
    /\ mc.constraints = [k1 |-> NullV]
    /\ mc.properties = NoneMap

(* --------------------------- unhealthy instances ------------------------ *)

\* what a decide does about the unhealthy instances of its snapshot: one destroy
\* request for each, and launches and further destroys counted from the valid
\* instances that are not unhealthy
UnhealthyHandled(cs) ==
    LET unhealthy == get_unhealthy_instances(instances) IN
    /\ \A i \in unhealthy :
           Len(SelectSeq(cs, LAMBDA c : c.kind = "destroy" /\ c.id = i)) = 1
    /\ Len(Destroys(cs)) =
           Cardinality(unhealthy)
           + Max(0, Cardinality(HealthyValid) - engine.preserve_n)

Replaced(cs) ==
    Cardinality(HealthyValid) < engine.preserve_n =>
        Len(Launches(cs)) = engine.preserve_n - Cardinality(HealthyValid)

\* C30 as stated: every decide sends each unhealthy instance of the snapshot
\* exactly one destroy request, leaves it out of the valid count and never picks
\* it as a surplus victim, and launches the replacements in the same cycle when
\* the remaining valid count is below preserve_n.
C30_Unhealthy ==
    [][eop'.name = "decide" => UnhealthyHandled(calls') /\ Replaced(calls')]_vars

\* C30 with the launch configuration: the replacements are launched when site,
\* allocation and deployable type are configured; otherwise the decide fails with
\* a configuration error after its destroy requests and launches nothing.
C30_UnhealthyConfigured ==
    [][eop'.name = "decide" =>
         /\ UnhealthyHandled(calls')
         /\ IF LaunchConfigured \/ Cardinality(HealthyValid) >= engine.preserve_n
            THEN eop'.result = None /\ Replaced(calls')
            ELSE eop'.result = "Exception" /\ Launches(calls') = <<>>
      ]_vars

\* the only instance was unhealthy: it was destroyed and its replacement launched
C30_Witness ==
    /\ eop.name = "decide" /\ eop.result = None
    /\ engine.preserve_n = 1
    /\ calls = <<ControlCall("destroy", None, None, None, NoneMap, 1),
                 ControlCall("launch", "dt1", "s1", "a1", NoneMap, 2)>>
    /\ instances[1].health = "ERROR"

(* ------------------------- claims across the handlers ------------------- *)

\* C31: when notify_subscribers raises while an instance-state message is
\* handled, new_instance_state ends without raising and the store holds the
\* state of the message (or the later state it held already).
C31_NotifierContained ==
    [][(rop'.name = "new_instance_state" /\ rop'.notify_failed) =>
         LET id == rop'.content.node_id
             state == rop'.content.state IN
         /\ ~rop'.raised
         /\ rcalls'[1] = RCall("new_instance_state", id, state)
         /\ id \in DOMAIN store'.instances
         /\ store'.instances[id].state =
                IF id \in DOMAIN store.instances
                   /\ InstanceStateRank(state) < InstanceStateRank(store.instances[id].state)
                THEN store.instances[id].state
                ELSE state
      ]_vars

\* the notifier raised on a FAILED instance; the state is in the store
C31_Witness ==
    /\ rop.name = "new_instance_state"
    /\ rop.notify_failed
    /\ ~rop.raised
    /\ rop.content.state = "FAILED"
    /\ store.instances[rop.content.node_id].state = "FAILED"

\* C32: a process record that is TERMINATED or REJECTED keeps its state through
\* every later handler, and no later handler makes a launch_process call for it.
C32_TerminalAbsorbing ==
    [][\A u \in Known :
         processes[u].state \in {"TERMINATED", "REJECTED"} =>
             /\ processes'[u].state = processes[u].state
             /\ Calls(out', "launch", u) = <<>>
      ]_vars

\* C33: launch_process is issued at most once for a (upid, round) pair, and the
\* queue never holds the same upid twice. Stated for what one handler leaves
\* behind: its calls hold no two launches of the same upid under the same round,
\* and the queue it leaves holds each upid once.
C33_NoDuplicateLaunch ==
    [][/\ \A i, j \in 1..Len(out') :
            (/\ out'[i].kind = "launch" /\ out'[j].kind = "launch"
             /\ out'[i].upid = out'[j].upid /\ out'[i].round = out'[j].round) => i = j
       /\ \A i, j \in 1..Len(queue') : queue'[i] = queue'[j] => i = j
      ]_vars

\* the states under which the reactor reports the failure of an instance to a
\* subscriber: what it makes of TERMINATING, TERMINATED and FAILED
ReactorFailureStates == {notify_state(s) : s \in {"TERMINATING", "TERMINATED", "FAILED"}}

\* C34: a dt_state call for a known node with a state the reactor delivers for
\* a failed instance removes the node and its resources and reschedules the
\* processes assigned to them under the next round.
C34_FailurePropagates ==
    [][\A n \in DOMAIN nodes, s \in ReactorFailureStates, properties \in NodeProperties :
         dt_state(n, DtOfNode(n), s, properties) =>
             /\ n \notin DOMAIN nodes'
             /\ \A ee \in ResourcesOf(n) : ee \notin DOMAIN resources'
             /\ \A u \in Known :
                    (/\ processes[u].assigned \in ResourcesOf(n)
                     /\ InSeq(u, resources[processes[u].assigned].processes)
                     /\ Below(processes[u].state, "TERMINATING"))
                      => processes'[u].round = processes[u].round + 1
      ]_vars

\* C35: once dt_state was told that a node is TERMINATING or TERMINATED, no
\* resource of that node is registered and no handler launches a process on an
\* EE of that node, whatever heartbeat or dt_state call arrives later
C35_RemovedStaysRemoved ==
    /\ \A ee \in DOMAIN resources : resources[ee].node_id \notin removed
    /\ \A i \in 1..Len(out) :
         out[i].kind = "launch" => node_id_from_eeagent_name(out[i].ee) \notin removed

(* ------------------------- progress of the queue ----------------------- *)

\* the resource of an EE: the registered one, or the one its first heartbeat makes
ResourceOfEe(ee) ==
    IF ee \in DOMAIN resources THEN resources[ee]
    ELSE FirstHeartbeat(Core, ee, node_id_from_eeagent_name(ee)).resources[ee]

Fits(u, r) == match_constraints(processes[u].constraints, r.properties)

\* the processes queued before upid that the resource matches
EarlierMatching(upid, r) ==
    {i \in 1..Len(queue) : /\ \A j \in 1..i : queue[j] # upid
                           /\ Fits(queue[i], r)}

Waiting(upid) ==
    /\ upid \in DOMAIN processes
    /\ InSeq(upid, queue)
    /\ processes[upid].state = "WAITING"

\* an enabled resource that matches the process has more free slots than
\* there are matching processes queued before it
Served(upid, ee) ==
    /\ (ee \in DOMAIN resources \/ node_id_from_eeagent_name(ee) \in DOMAIN nodes)
    /\ LET r == ResourceOfEe(ee) IN
       /\ r.enabled
       /\ Fits(upid, r)
       /\ available_slots(r) > Cardinality(EarlierMatching(upid, r))

LaunchedNow(upid) ==
    /\ upid \in DOMAIN processes
    /\ processes[upid].state = "PENDING"
    /\ processes[upid].assigned \in DOMAIN resources
    /\ \E i \in 1..Len(out) :
         /\ out[i].kind = "launch" /\ out[i].upid = upid
         /\ out[i].ee = processes[upid].assigned
         /\ out[i].round = processes[upid].round

\* C36: a process that waits in the queue while an enabled resource that matches
\* it heartbeats with more free slots than matching processes queued before it
\* becomes PENDING on a resource, and launch_process is called for it
C36_QueueProgress ==
    \A upid \in Upids, ee \in EeIds :
        (Waiting(upid) /\ Served(upid, ee)) ~> LaunchedNow(upid)

\* a heartbeat has just launched the second process of the queue, the first
\* one still waiting for a resource that matches it
C36_Witness ==
    /\ op.name = "ee_heartbeart"
    /\ Len(queue) = 1
    /\ \E upid \in Upids \ {queue[1]} : LaunchedNow(upid) /\ op.considered.queue[2] = upid

\* C37: a decide cycle makes no destroy call for an instance that was
\* TERMINATING, TERMINATED or FAILED when the cycle began
C37_NoDoubleDestroy ==
    [][eop'.name = "decide" =>
         \A k \in 1..Len(calls') :
             calls'[k].kind = "destroy" => instances[calls'[k].id].state \notin BAD_STATES
      ]_vars

\* the value an instance holds under the unique key, in the snapshot insts
UniqueOf(e, insts, i) == PropGet(insts[i].extravars, e.unique_key)

\* C38: while the unique key and the unique values stay as initialize set them,
\* after every step no two valid instances hold the same non-null value under
\* the unique key; and a decide that launches gives its first launch the value
\* of an ended instance when that value is the first of unique_values that no
\* valid instance holds
C38_UniquesStayUnique ==
    [][(engine'.unique_key # None /\ engine'.reconfigure_count = 0) =>
         /\ \A i, j \in ValidSet(instances') :
              (i # j /\ UniqueOf(engine', instances', i) # None) =>
                  UniqueOf(engine', instances', i) # UniqueOf(engine', instances', j)
         /\ (eop'.name = "decide" /\ engine.unique_key # None) =>
              LET ls == Launches(calls') IN
              \A i \in DOMAIN instances :
                  (/\ instances[i].state \in BAD_STATES
                   /\ UniqueOf(engine, instances, i) # None
                   /\ FreeUniques # <<>>
                   /\ FreeUniques[1] = UniqueOf(engine, instances, i)
                   /\ ls # <<>>)
                    => ls[1].extravars[engine.unique_key] = UniqueOf(engine, instances, i)
      ]_vars

\* a decide has launched the third instance with the value of the first, which
\* ended, while the second instance is valid and holds another value
C38_Witness ==
    /\ eop.name = "decide" /\ engine.unique_key # None /\ engine.reconfigure_count = 0
    /\ Len(instances) = 3
    /\ instances[1].state \in BAD_STATES
    /\ ValidSet(instances) = {2, 3}
    /\ Launches(calls) # <<>> /\ Launches(calls)[1].id = 3
    /\ UniqueOf(engine, instances, 1) # None
    /\ UniqueOf(engine, instances, 3) = UniqueOf(engine, instances, 1)
    /\ UniqueOf(engine, instances, 2) \notin {None, UniqueOf(engine, instances, 1)}

====
